---- MODULE Spec2Model ----
(***************************************************************************)
(* Job lifecycle engine of semantica-task-engine: the SQLite store (jobs   *)
(* and subjects tables), the enqueue/supersede transaction, the worker     *)
(* loop with its scheduler gate and retry policy, cancel, crash recovery   *)
(* and maintenance GC.                                                     *)
(*                                                                         *)
(* Time is the injected TimeProvider's clock in abstract units.  The store *)
(* is one SQLite database in WAL mode: statements run outside a            *)
(* transaction are atomic; an enqueue runs in a deferred transaction       *)
(* (pool.begin()), whose first read fixes its snapshot and whose first     *)
(* write must obtain the single write lock.                                *)
(***************************************************************************)
EXTENDS Integers, Sequences, FiniteSets, TLC

\* ---- bounds of the model ----
MaxJobs == 2
NumClients == 2
NumWorkers == 2
MaxTime == 1
\* the limiter's burst size and the span of its millisecond clock
MaxTokens == 2
MaxElapsedMs == 30
\* the largest number of body starts counted per job
MaxStarts == 3
\* the span, in days, of the clock of the maintenance specification
MaxDays == 31

Ids == 1..MaxJobs
Clients == 1..NumClients
Workers == 1..NumWorkers
Times == 0..MaxTime
Subjects == {"a.rs", "b.rs"}
Queues == {"default", "other"}
\* retention periods and recovery windows handed to maintenance and recovery
Durations == {0, 1}

\* Option::None / SQL NULL for the optional integer columns
None == -1
\* no holder of the write lock
NoOne == 0

\* ---- program constants ----
MIN_PRIORITY == -100
MAX_PRIORITY == 100
DEFAULT_MAX_ATTEMPTS == 3
IDLE_CPU_THRESHOLD == 30
MAX_QUEUE_NAME_LEN == 64
MAX_JOB_TYPE_LEN == 128
MAX_SUBJECT_KEY_LEN == 512
MAX_PAYLOAD_DEPTH == 32
\* RpcHandler::new's default refill rate, tokens per second
DEFAULT_RATE_PER_SEC == 100
\* MaintenanceConfig::default and the retention admin.maintenance.v1 passes
FINISHED_JOB_RETENTION_DAYS == 7
ARTIFACT_RETENTION_DAYS == 3
ADMIN_RETENTION_DAYS == 30

VARIABLES
    jobs,       \* committed jobs table: id -> row
    subjects,   \* committed subjects table: subject_key -> latest_generation
    now,        \* TimeProvider::now_millis
    wlock,      \* client whose transaction holds the SQLite write lock
    wjobs,      \* jobs table as seen by the open write transaction
    wsubjects,  \* subjects table as seen by the open write transaction
    enq,        \* per client: position in enqueue::execute and its locals
    wk,         \* per worker: position in process_next_job and its job snapshot
    usedIds,    \* ids the IdProvider has handed out
    genLog,     \* per subject: generations of committed enqueues, in commit order
    failures,   \* per job id: graceful failures whose outcome a worker stored
    startup,    \* how recovery ended when the daemon last started
    watch,      \* the shutdown watch channel: value, version, version seen
                \* per worker's receiver
    probe,      \* the host as SystemProbe and the power sensors read it
    environ,    \* the daemon's own process environment: name -> value
    children,   \* the child processes spawned so far, in order
    reply,      \* what the last repository or limiter call returned
    files,      \* the log files on disk, by path
    limiter,    \* RateLimiter: the packed (tokens, last_refill_ms) word and
                \* the milliseconds since creation_time
    starts      \* per job id: how often a worker has started the job's body

vars == <<jobs, subjects, now, wlock, wjobs, wsubjects, enq, wk, usedIds,
          genLog, failures, startup, watch, probe, environ, children, reply,
          files, limiter, starts>>

\* ---- process environments: name -> value ----
\* the empty environment
NoEnv == [name \in {} |-> ""]

\* the environment the daemon is started in: a search path and a credential
DaemonEnviron == [name \in {"PATH", "API_KEY"} |-> "daemon"]

\* ---- calls and their replies ----
\* no call has returned yet
NoReply == [call |-> "none", result |-> "none"]

\* ---- RateLimiter ----
\* RateLimiter::new(max_tokens, refill_rate): a full bucket, last refill at
\* creation; elapsed_ms is Instant::now() - creation_time, granted_ms the
\* time of the last check that returned true (-1: none yet)
NewLimiter ==
    [tokens |-> MaxTokens, last_refill_ms |-> 0, elapsed_ms |-> 0,
     granted_ms |-> -1]

\* ---- domain ----
\* Job::new: the defaults of a freshly built job
NewJob(id, created_at, queue, subject_key, generation) ==
    [id |-> id, queue |-> queue, subject_key |-> subject_key,
     generation |-> generation, priority |-> 0, state |-> "QUEUED",
     created_at |-> created_at, started_at |-> None, finished_at |-> None,
     pid |-> None, attempts |-> 0, max_attempts |-> DEFAULT_MAX_ATTEMPTS,
     schedule_at |-> None, wait_for_idle |-> FALSE,
     require_charging |-> FALSE, wait_for_event |-> FALSE,
     deadline |-> None, ttl_ms |-> None, payload_env |-> NoEnv,
     log_path |-> None]

NoJob == [id |-> 0]

\* Complete that stamps the wrong timestamp field
CompleteStampsCreation(job, t) ==
    [job EXCEPT !.state = "DONE", !.finished_at = job.created_at]

\* Job::complete (callers hold a RUNNING job)
Complete(job, t) == [job EXCEPT !.state = "DONE", !.finished_at = t]

\* Job::fail
Fail(job, t) == [job EXCEPT !.state = "FAILED", !.finished_at = t]

\* ---- store: statements ----
\* INSERT INTO jobs
InsertRow(js, job) == (job.id :> job) @@ js

\* an update whose SET list leaves started_at out
RepoUpdateKeepsStartedAt(js, job) ==
    IF job.id \in DOMAIN js
    THEN [js EXCEPT ![job.id] =
            [@ EXCEPT !.state = job.state,
                      !.finished_at = job.finished_at,
                      !.log_path = job.log_path, !.pid = job.pid,
                      !.attempts = job.attempts, !.deadline = job.deadline,
                      !.schedule_at = job.schedule_at,
                      !.wait_for_idle = job.wait_for_idle,
                      !.require_charging = job.require_charging,
                      !.wait_for_event = job.wait_for_event]]
    ELSE js

\* JobRepository::update: overwrites the mutable columns WHERE id = ?;
\* an absent row changes nothing and is not reported
RepoUpdate(js, job) ==
    IF job.id \in DOMAIN js
    THEN [js EXCEPT ![job.id] =
            [@ EXCEPT !.state = job.state, !.started_at = job.started_at,
                      !.finished_at = job.finished_at,
                      !.log_path = job.log_path, !.pid = job.pid,
                      !.attempts = job.attempts, !.deadline = job.deadline,
                      !.schedule_at = job.schedule_at,
                      !.wait_for_idle = job.wait_for_idle,
                      !.require_charging = job.require_charging,
                      !.wait_for_event = job.wait_for_event]]
    ELSE js

\* SupersededRows with the bound off by one: the previous generation escapes
SupersededRowsSkipPrevious(js, subject_key, below_generation) ==
    {i \in DOMAIN js : /\ js[i].subject_key = subject_key
                       /\ js[i].generation < below_generation - 1
                       /\ js[i].state = "QUEUED"}

\* JobRepository::update's result: execute(..).await.map_err(..)?; Ok(()):
\* rows_affected is not read, so with the database at work the answer is Ok
RepoUpdateResult(js, job) == "Ok"

\* rows_affected of update's UPDATE ... WHERE id = ?
RepoUpdateRows(js, job) == IF job.id \in DOMAIN js THEN 1 ELSE 0

\* SupersededRows without regard to a job in process: RUNNING rows of older
\* generations are taken too
SupersededRowsAlsoRunning(js, subject_key, below_generation) ==
    {i \in DOMAIN js : /\ js[i].subject_key = subject_key
                       /\ js[i].generation < below_generation
                       /\ js[i].state \in {"QUEUED", "RUNNING"}}

\* mark_superseded: UPDATE jobs ... WHERE subject_key = ? AND generation < ?
\* AND state = 'QUEUED'
SupersededRows(js, subject_key, below_generation) ==
    {i \in DOMAIN js : /\ js[i].subject_key = subject_key
                       /\ js[i].generation < below_generation
                       /\ js[i].state = "QUEUED"}

MarkSuperseded(js, subject_key, below_generation, t) ==
    [i \in DOMAIN js |->
        IF i \in SupersededRows(js, subject_key, below_generation)
        THEN [js[i] EXCEPT !.state = "SUPERSEDED", !.finished_at = t]
        ELSE js[i]]

\* mark_superseded's return value: rows_affected of the UPDATE on jobs
MarkSupersededCount(js, subject_key, below_generation) ==
    Cardinality(SupersededRows(js, subject_key, below_generation))

\* mark_superseded that leaves the subjects table alone
SetLatestGenerationSkipped(subs, subject_key, generation) == subs

\* mark_superseded's second statement: UPDATE subjects SET latest_generation
SetLatestGeneration(subs, subject_key, generation) ==
    [subs EXCEPT ![subject_key] = generation]

\* ---- request texts and payloads ----
\* a text of n times the character ch
Repeat(ch, n) == [i \in 1..n |-> ch]

\* the characters of the texts used in requests (a text is named by a
\* string; its characters are what validation looks at); <e-acute> is the
\* letter U+00E9 and <NUL> the character U+0000
Chars(text) ==
    CASE text = "" -> <<>>
      [] text = "default" -> <<"d", "e", "f", "a", "u", "l", "t">>
      [] text = "other" -> <<"o", "t", "h", "e", "r">>
      [] text = "a.rs" -> <<"a", ".", "r", "s">>
      [] text = "b.rs" -> <<"b", ".", "r", "s">>
      [] text = "INDEX" -> <<"I", "N", "D", "E", "X">>
      [] text = "low_prio-1" ->
            <<"l", "o", "w", "_", "p", "r", "i", "o", "-", "1">>
      [] text = "a/b" -> <<"a", "/", "b">>
      [] text = "caf<e-acute>" -> <<"c", "a", "f", "<e-acute>">>
      [] text = "a<NUL>.rs" -> <<"a", "<NUL>", ".", "r", "s">>
      [] text = "a*64" -> Repeat("a", MAX_QUEUE_NAME_LEN)
      [] text = "a*65" -> Repeat("a", MAX_QUEUE_NAME_LEN + 1)
      [] text = "a*128" -> Repeat("a", MAX_JOB_TYPE_LEN)
      [] text = "a*129" -> Repeat("a", MAX_JOB_TYPE_LEN + 1)
      [] text = "a*512" -> Repeat("a", MAX_SUBJECT_KEY_LEN)
      [] text = "a*513" -> Repeat("a", MAX_SUBJECT_KEY_LEN + 1)

\* the ASCII letters and digits that occur in the texts above
AsciiAlphanumeric ==
    {"a", "b", "c", "d", "e", "f", "h", "i", "l", "o", "p", "r", "s", "t",
     "u", "w", "D", "E", "I", "N", "X", "1"}

\* char::is_alphanumeric: Unicode letters and digits, not only ASCII ones
IsAlphanumeric(ch) == ch \in AsciiAlphanumeric \cup {"<e-acute>"}

\* the bytes a character takes in UTF-8
Utf8Len(ch) == IF ch = "<e-acute>" THEN 2 ELSE 1

\* String::len: the length in bytes, one or two per character here
ByteLen(chars) ==
    Cardinality({n \in DOMAIN chars : Utf8Len(chars[n]) = 1})
    + 2 * Cardinality({n \in DOMAIN chars : Utf8Len(chars[n]) = 2})

\* JSON values: a scalar, or an array of values (an object nests the same way)
Scalar == [kind |-> "scalar"]

EmptyArray == [kind |-> "array", items |-> <<>>]

\* leaf wrapped in n arrays
RECURSIVE Nest(_, _)
Nest(n, leaf) ==
    IF n = 0 THEN leaf
    ELSE [kind |-> "array", items |-> <<Nest(n - 1, leaf)>>]

\* check_depth: Err as soon as a value is visited below MAX_PAYLOAD_DEPTH
\* levels of containers
RECURSIVE CheckDepth(_, _)
CheckDepth(value, current_depth) ==
    /\ ~(current_depth > MAX_PAYLOAD_DEPTH)
    /\ value.kind = "array" =>
          \A n \in DOMAIN value.items :
              CheckDepth(value.items[n], current_depth + 1)

\* validate_payload_complexity
ValidatePayloadComplexity(value) == CheckDepth(value, 0)

\* validate_request: TRUE for Ok(()), FALSE for Err(Validation)
ValidateRequest(req) ==
    /\ Chars(req.queue) # <<>>
    /\ ~(ByteLen(Chars(req.queue)) > MAX_QUEUE_NAME_LEN)
    /\ \A n \in DOMAIN Chars(req.queue) :
          IsAlphanumeric(Chars(req.queue)[n])
          \/ Chars(req.queue)[n] \in {"_", "-"}
    /\ Chars(req.job_type) # <<>>
    /\ ~(ByteLen(Chars(req.job_type)) > MAX_JOB_TYPE_LEN)
    /\ Chars(req.subject_key) # <<>>
    /\ ~(ByteLen(Chars(req.subject_key)) > MAX_SUBJECT_KEY_LEN)
    /\ ValidatePayloadComplexity(req.payload)
    /\ ~(req.priority < MIN_PRIORITY \/ req.priority > MAX_PRIORITY)

\* a well-formed request
PlainRequest ==
    [job_type |-> "INDEX", queue |-> "default", subject_key |-> "a.rs",
     payload |-> Scalar, priority |-> 0]

\* the requests drawn: two subjects, two queues, two priorities, and one
\* request whose priority is out of range
Requests ==
    {PlainRequest,
     [PlainRequest EXCEPT !.priority = 10],
     [PlainRequest EXCEPT !.subject_key = "b.rs", !.priority = 10],
     [PlainRequest EXCEPT !.queue = "other", !.subject_key = "b.rs"],
     [PlainRequest EXCEPT !.priority = 101]}

\* requests at and beyond every limit of validate_request, one field at a time
BoundaryRequests ==
    {PlainRequest}
    \cup {[PlainRequest EXCEPT !.queue = q] :
            q \in {"", "a*64", "a*65", "low_prio-1", "a/b", "caf<e-acute>"}}
    \cup {[PlainRequest EXCEPT !.job_type = t] : t \in {"", "a*128", "a*129"}}
    \cup {[PlainRequest EXCEPT !.subject_key = k] :
            k \in {"", "a*512", "a*513", "a<NUL>.rs"}}
    \cup {[PlainRequest EXCEPT !.payload = v] :
            v \in {Nest(MAX_PAYLOAD_DEPTH, Scalar),
                   Nest(MAX_PAYLOAD_DEPTH + 1, Scalar),
                   Nest(MAX_PAYLOAD_DEPTH, EmptyArray)}}
    \cup {[PlainRequest EXCEPT !.priority = n] :
            n \in {MIN_PRIORITY - 1, MIN_PRIORITY, MAX_PRIORITY,
                   MAX_PRIORITY + 1}}

\* update_state: UPDATE jobs SET state, finished_at WHERE id = ? AND state
\* NOT IN ('COMPLETED', 'FAILED', 'CANCELLED', 'SUPERSEDED')
UpdateStateGuarded == {"COMPLETED", "FAILED", "CANCELLED", "SUPERSEDED"}

UpdateStateMatches(js, id) ==
    id \in DOMAIN js /\ js[id].state \notin UpdateStateGuarded

UpdateState(js, id, state, finished_at) ==
    IF UpdateStateMatches(js, id)
    THEN [js EXCEPT ![id] = [@ EXCEPT !.state = state,
                                      !.finished_at = finished_at]]
    ELSE js

\* update_state's result: rows_affected = 0 -> NotFound or InvalidState
UpdateStateResult(js, id) ==
    IF UpdateStateMatches(js, id) THEN "Ok"
    ELSE IF id \in DOMAIN js THEN "InvalidState" ELSE "NotFound"

\* pop_next's subquery: SELECT MAX(generation) FROM jobs WHERE subject_key = ?
MaxGeneration(js, subject_key) ==
    LET gens == {js[k].generation :
                    k \in {i \in DOMAIN js : js[i].subject_key = subject_key}}
    IN CHOOSE g \in gens : \A h \in gens : h <= g

\* PopCandidates without an atomic state test: a row another caller has
\* already taken is still a candidate
PopCandidatesAlsoRunning(js, queue) ==
    {i \in DOMAIN js : /\ js[i].queue = queue
                       /\ js[i].state \in {"QUEUED", "RUNNING"}
                       /\ js[i].generation = MaxGeneration(js, js[i].subject_key)}

\* pop_next's WHERE clause
PopCandidates(js, queue) ==
    {i \in DOMAIN js : /\ js[i].queue = queue
                       /\ js[i].state = "QUEUED"
                       /\ js[i].generation = MaxGeneration(js, js[i].subject_key)}

\* ORDER BY priority DESC, created_at ASC, id ASC
SortsBefore(a, b) ==
    \/ a.priority > b.priority
    \/ a.priority = b.priority /\ a.created_at < b.created_at
    \/ a.priority = b.priority /\ a.created_at = b.created_at /\ a.id < b.id

\* the id pop_next's inner SELECT ... LIMIT 1 yields, 0 when there is none
PopNextId(js, queue) ==
    LET c == PopCandidates(js, queue)
    IN IF c = {} THEN 0
       ELSE CHOOSE i \in c : \A k \in c \ {i} : SortsBefore(js[i], js[k])

\* PopNext that sets the state but leaves started_at as it was
PopNextKeepsStartedAt(js, queue, t) ==
    IF PopNextId(js, queue) = 0 THEN js
    ELSE [js EXCEPT ![PopNextId(js, queue)] = [@ EXCEPT !.state = "RUNNING"]]

\* PopNext as a SELECT followed by nothing: the row is stamped but stays QUEUED
PopNextLeavesQueued(js, queue, t) ==
    IF PopNextId(js, queue) = 0 THEN js
    ELSE [js EXCEPT ![PopNextId(js, queue)] = [@ EXCEPT !.started_at = t]]

\* PopNext that supersedes at pop time by writing: the QUEUED rows of older
\* generations of the popped job's subject become SUPERSEDED
PopNextSupersedesOlder(js, queue, t) ==
    IF PopNextId(js, queue) = 0 THEN js
    ELSE LET p == js[PopNextId(js, queue)]
         IN [i \in DOMAIN js |->
                IF i = p.id
                THEN [js[i] EXCEPT !.state = "RUNNING", !.started_at = t]
                ELSE IF /\ js[i].subject_key = p.subject_key
                        /\ js[i].generation < p.generation
                        /\ js[i].state = "QUEUED"
                     THEN [js[i] EXCEPT !.state = "SUPERSEDED",
                                        !.finished_at = t]
                     ELSE js[i]]

\* pop_next's UPDATE ... SET state = 'RUNNING', started_at = now
PopNext(js, queue, t) ==
    IF PopNextId(js, queue) = 0 THEN js
    ELSE [js EXCEPT ![PopNextId(js, queue)] =
            [@ EXCEPT !.state = "RUNNING", !.started_at = t]]

\* a DELETE that also takes the jobs finished exactly at the cutoff
GcRowsInclusive(js, cutoff) ==
    {i \in DOMAIN js : /\ js[i].state \in {"DONE", "FAILED", "SUPERSEDED"}
                       /\ js[i].finished_at # None
                       /\ js[i].finished_at <= cutoff}

\* gc_finished_jobs: DELETE FROM jobs WHERE state IN (DONE, FAILED, SUPERSEDED)
\* AND finished_at IS NOT NULL AND finished_at < cutoff
GcRows(js, cutoff) ==
    {i \in DOMAIN js : /\ js[i].state \in {"DONE", "FAILED", "SUPERSEDED"}
                       /\ js[i].finished_at # None
                       /\ js[i].finished_at < cutoff}

GcFinishedJobs(js, t, retention) ==
    [i \in DOMAIN js \ GcRows(js, t - retention) |-> js[i]]

\* gc_finished_jobs' return value: rows_affected of the DELETE
GcDeletedCount(js, t, retention) == Cardinality(GcRows(js, t - retention))

\* ---- scheduler gate and retry policy ----
\* Scheduler::is_system_idle: the sampled CPU percentage is below the threshold
IsSystemIdle(p) == p.cpu < IDLE_CPU_THRESHOLD

\* Scheduler::is_charging: macOS and Linux read the power sensors (AC online,
\* or a battery at 80% or more); any other build answers true
IsCharging(p) ==
    IF p.platform \in {"macos", "linux"}
    THEN p.mains \/ (p.battery # None /\ p.battery >= 80)
    ELSE TRUE

\* Scheduler::is_ready: the rule that makes it return false (the one its
\* debug line names), 0 when it returns true
NotReadyRule(job, t, p) ==
    IF job.schedule_at # None /\ t < job.schedule_at THEN 1
    ELSE IF job.wait_for_idle /\ ~IsSystemIdle(p) THEN 2
    ELSE IF job.require_charging /\ ~IsCharging(p) THEN 3
    ELSE IF job.wait_for_event THEN 4
    ELSE 0

IsReady(job, t, p) == NotReadyRule(job, t, p) = 0

\* should_retry with the comparison off by one: one retry too many
ShouldRetryOneMore(job) ==
    IF job.attempts > job.max_attempts THEN "Failed" ELSE "Retry"

\* should_retry that reads max_attempts = 0 as "no limit"
ShouldRetryUnlimitedAtZero(job) ==
    IF job.max_attempts > 0 /\ job.attempts >= job.max_attempts
    THEN "Failed" ELSE "Retry"

\* RetryPolicy::should_retry
ShouldRetry(job) ==
    IF job.attempts >= job.max_attempts THEN "Failed" ELSE "Retry"

\* should_retry's delay_ms in units of base_delay_ms, the +-10% jitter left
\* out: backoff_factor ^ attempts, with Job::new's backoff_factor = 2.0
RetryDelay(job) == 2 ^ job.attempts

\* prepare_for_retry that forgets to count the attempt
PrepareForRetryUncounted(job) ==
    [job EXCEPT !.state = "QUEUED", !.started_at = None, !.pid = None]

\* RetryPolicy::prepare_for_retry
PrepareForRetry(job) ==
    [job EXCEPT !.attempts = @ + 1, !.state = "QUEUED", !.started_at = None,
                !.pid = None]

\* RetryPolicy::is_deadline_exceeded
IsDeadlineExceeded(job, t) == job.deadline # None /\ t > job.deadline

\* RetryPolicy::is_ttl_exceeded
IsTtlExceeded(job, t) == job.ttl_ms # None /\ t - job.created_at > job.ttl_ms

\* RecoverJob with the cutoff test off by one: a job started exactly at the
\* cutoff counts as orphaned
RecoverJobInclusive(job, t, cutoff) ==
    IF job.started_at = None
    THEN [job EXCEPT !.state = "FAILED", !.finished_at = t]
    ELSE IF job.started_at <= cutoff
         THEN IF job.pid # None
              THEN [job EXCEPT !.state = "FAILED", !.finished_at = t,
                               !.pid = None]
              ELSE [job EXCEPT !.state = "QUEUED", !.started_at = None]
         ELSE job

\* RecoveryService: what recover_orphaned_jobs stores for one RUNNING job
RecoverJob(job, t, cutoff) ==
    IF job.started_at = None
    THEN [job EXCEPT !.state = "FAILED", !.finished_at = t]
    ELSE IF job.started_at < cutoff
         THEN IF job.pid # None
              THEN [job EXCEPT !.state = "FAILED", !.finished_at = t,
                               !.pid = None]
              ELSE [job EXCEPT !.state = "QUEUED", !.started_at = None]
         ELSE job

\* recover_orphaned_jobs: find_by_state(RUNNING), then update per job
RecoverOrphanedJobs(js, t, window) ==
    [i \in DOMAIN js |->
        IF js[i].state = "RUNNING" THEN RecoverJob(js[i], t, t - window)
        ELSE js[i]]

\* recover_orphaned_jobs' return value: recovered_count
RecoveredCount(js, t, window) ==
    Cardinality({i \in DOMAIN js :
                    /\ js[i].state = "RUNNING"
                    /\ \/ js[i].started_at = None
                       \/ js[i].started_at < t - window})

\* ---- enqueue::execute, one deferred transaction per call ----
NoReq ==
    [job_type |-> "", queue |-> "", subject_key |-> "", payload |-> Scalar,
     priority |-> 0]

EnqLocals(pc) ==
    [pc |-> pc, req |-> NoReq, latest_gen |-> 0, new_gen |-> 0, stale |-> FALSE]

\* clients whose transaction has read and not yet written
Readers(e) == {d \in Clients : e[d].pc \in {"newsubj", "insert"}}

\* a commit by another connection puts every open read snapshot out of date
Invalidate(e, changed) ==
    [d \in Clients |->
        IF changed /\ d \in Readers(e) THEN [e[d] EXCEPT !.stale = TRUE] ELSE e[d]]

\* CanWrite without the snapshot check: a stale reader is let through
CanWriteIgnoringSnapshot(c) == wlock = c \/ wlock = NoOne

\* upgrading the read transaction to a write transaction: SQLITE_BUSY when
\* another connection holds the write lock or the snapshot is out of date
CanWrite(c) == wlock = c \/ (wlock = NoOne /\ ~enq[c].stale)

\* IdProvider::generate_id: an id never handed out before (a random UUID may
\* sort before or after the ids already there)
FreshIds ==
    LET free == Ids \ usedIds
    IN {i \in free : (\A k \in free : i <= k) \/ (\A k \in free : i >= k)}

\* validate_request; begin_transaction; get_latest_generation's SELECT
EnqBegin(c, req) ==
    /\ enq[c].pc = "idle"
    /\ Cardinality(usedIds) + Cardinality(Readers(enq)) < MaxJobs
    /\ IF ~ValidateRequest(req)
       THEN enq' = [enq EXCEPT ![c] = EnqLocals("rejected")]
       ELSE enq' = [enq EXCEPT ![c] =
                [pc |-> IF req.subject_key \in DOMAIN subjects
                        THEN "insert" ELSE "newsubj",
                 req |-> req, stale |-> FALSE,
                 latest_gen |-> IF req.subject_key \in DOMAIN subjects
                                THEN subjects[req.subject_key] ELSE 0,
                 new_gen |-> 0]]
    /\ UNCHANGED <<jobs, subjects, now, wlock, wjobs, wsubjects, wk, usedIds,
                   genLog, failures, startup, watch, probe, environ, children, reply,
          files, limiter, starts>>

\* EnqRollback that releases the lock but keeps the writes of the dropped
\* transaction pending on the connection
EnqRollbackKeepsWrites(c) ==
    /\ wlock' = IF wlock = c THEN NoOne ELSE wlock
    /\ wjobs' = wjobs
    /\ wsubjects' = wsubjects

\* the transaction is dropped without commit: sqlx rolls it back
EnqRollback(c) ==
    /\ wlock' = IF wlock = c THEN NoOne ELSE wlock
    /\ wjobs' = IF wlock = c THEN jobs ELSE wjobs
    /\ wsubjects' = IF wlock = c THEN subjects ELSE wsubjects

\* the `?` on a statement refused with SQLITE_BUSY: the transaction is
\* dropped, the caller gets AppError::Database
EnqFail(c) ==
    /\ enq' = [enq EXCEPT ![c] = [EnqLocals("failed") EXCEPT !.req = enq[c].req]]
    /\ EnqRollback(c)

\* get_latest_generation, None branch: INSERT INTO subjects VALUES (?, 0)
EnqNewSubject(c) ==
    /\ enq[c].pc = "newsubj"
    /\ IF CanWrite(c)
       THEN /\ wlock' = c
            /\ wsubjects' = (enq[c].req.subject_key :> 0) @@ wsubjects
            /\ wjobs' = wjobs
            /\ enq' = [enq EXCEPT ![c].pc = "insert", ![c].latest_gen = 0]
       ELSE EnqFail(c)
    /\ UNCHANGED <<jobs, subjects, now, wk, usedIds, genLog, failures,
                   startup, watch, probe,
                   environ, children, reply, files, limiter, starts>>

\* new_gen, generate_id, now_millis, Job::new, priority, tx.insert
EnqInsert(c, id) ==
    /\ enq[c].pc = "insert"
    /\ id \in FreshIds
    /\ IF CanWrite(c)
       THEN /\ wlock' = c
            /\ wjobs' = InsertRow(wjobs,
                   [NewJob(id, now, enq[c].req.queue, enq[c].req.subject_key,
                           enq[c].latest_gen + 1)
                     EXCEPT !.priority = enq[c].req.priority])
            /\ wsubjects' = wsubjects
            /\ usedIds' = usedIds \cup {id}
            /\ enq' = [enq EXCEPT ![c].pc = "mark",
                                  ![c].new_gen = enq[c].latest_gen + 1]
       ELSE EnqFail(c) /\ usedIds' = usedIds
    /\ UNCHANGED <<jobs, subjects, now, wk, genLog, failures, startup, watch, probe,
                   environ, children, reply, files, limiter, starts>>

\* tx.mark_superseded(subject_key, new_gen)
EnqMarkSuperseded(c) ==
    /\ enq[c].pc = "mark"
    /\ wlock = c
    /\ wjobs' = MarkSuperseded(wjobs, enq[c].req.subject_key, enq[c].new_gen, now)
    /\ wsubjects' = SetLatestGeneration(wsubjects, enq[c].req.subject_key,
                                        enq[c].new_gen)
    /\ enq' = [enq EXCEPT ![c].pc = "commit"]
    /\ UNCHANGED <<jobs, subjects, now, wlock, wk, usedIds, genLog, failures,
                   startup, watch, probe,
                   environ, children, reply, files, limiter, starts>>

\* tx.commit; Ok(job_id)
EnqCommit(c) ==
    /\ enq[c].pc = "commit"
    /\ wlock = c
    /\ jobs' = wjobs
    /\ subjects' = wsubjects
    /\ wlock' = NoOne
    /\ enq' = Invalidate([enq EXCEPT ![c] = EnqLocals("idle")], TRUE)
    /\ genLog' = [genLog EXCEPT ![enq[c].req.subject_key] =
                                    Append(@, enq[c].new_gen)]
    /\ UNCHANGED <<now, wjobs, wsubjects, wk, usedIds, failures,
                   startup, watch, probe,
                   environ, children, reply, files, limiter, starts>>

\* any statement of the transaction, or its commit, returns a database error
\* (I/O error, disk full): map_err to AppError::Database, then `?`
EnqDbError(c) ==
    /\ enq[c].pc \in {"newsubj", "insert", "mark", "commit"}
    /\ enq' = [enq EXCEPT ![c] = EnqLocals("ioerror")]
    /\ EnqRollback(c)
    /\ UNCHANGED <<jobs, subjects, now, wk, usedIds, genLog, failures,
                   startup, watch, probe,
                   environ, children, reply, files, limiter, starts>>

\* the error reaches the caller (VALIDATION_ERROR or DB_ERROR)
EnqReturn(c) ==
    /\ enq[c].pc \in {"rejected", "failed", "ioerror"}
    /\ enq' = [enq EXCEPT ![c] = EnqLocals("idle")]
    /\ UNCHANGED <<jobs, subjects, now, wlock, wjobs, wsubjects, wk, usedIds,
                   genLog, failures, startup, watch, probe, environ, children, reply,
          files, limiter, starts>>

\* TimeProvider: the clock advances
Tick ==
    /\ now < MaxTime
    /\ now' = now + 1
    /\ UNCHANGED <<jobs, subjects, wlock, wjobs, wsubjects, enq, wk, usedIds,
                   genLog, failures, startup, watch, probe, environ, children, reply,
          files, limiter, starts>>

\* ---- the host ----
\* what the probes can read: CPU percentage, an AC adapter that is online,
\* the battery level if there is a battery, and the build's target_os; pmset
\* on a Mac without a battery reports AC power, while a Linux desktop may list
\* no power supply at all
Probes ==
    {p \in [cpu : {29, 30, 31}, mains : BOOLEAN, battery : {None, 79, 80},
            platform : {"linux", "macos", "other"}] :
        (p.platform = "macos" /\ p.battery = None) => p.mains}

\* a quiet Linux desktop on AC power
QuietHost == [cpu |-> 0, mains |-> TRUE, battery |-> None, platform |-> "linux"]

\* ---- worker shutdown: tokio watch channel ----
\* shutdown_channel: watch::channel(false); every receiver has seen version 0
ShutdownChannel ==
    [value |-> FALSE, version |-> 0, seen |-> [w \in Workers |-> 0]]

\* ShutdownToken::is_shutdown: *rx.borrow() (does not mark the value seen)
IsShutdown == watch.value

\* a wait that counts only a signal sent after the wait began
WaitReturnsOnLaterSend(w) == watch.version > watch.seen[w] + 1

\* ShutdownToken::wait: rx.changed() returns once the channel's version
\* differs from the version this receiver has seen
WaitReturns(w) == watch.version # watch.seen[w]

Init ==
    /\ jobs = <<>>
    /\ subjects = <<>>
    /\ now = 0
    /\ wlock = NoOne
    /\ wjobs = <<>>
    /\ wsubjects = <<>>
    /\ enq = [c \in Clients |-> EnqLocals("idle")]
    /\ wk = [w \in Workers |-> [pc |-> "idle", job |-> NoJob]]
    /\ usedIds = {}
    /\ genLog = [s \in Subjects |-> <<>>]
    /\ failures = [i \in Ids |-> 0]
    /\ startup = "recovered"
    /\ watch = ShutdownChannel
    /\ probe = QuietHost
    /\ environ = DaemonEnviron
    /\ children = <<>>
    /\ reply = NoReply
    /\ files = {}
    /\ limiter = NewLimiter
    /\ starts = [i \in Ids |-> 0]

\* ---- statements run outside a transaction ----
\* one autocommitted write statement: waits for the write lock, commits at once
Autocommit(newJobs) ==
    /\ wlock = NoOne
    /\ jobs' = newJobs
    /\ wjobs' = newJobs
    /\ enq' = Invalidate(enq, newJobs # jobs)
    /\ UNCHANGED <<subjects, wsubjects, wlock>>

\* ---- Worker::process_next_job ----
\* the daemon's workers serve DEFAULT_QUEUE
WorkerQueue(w) == "default"

\* Worker::run has found is_shutdown() false and calls process_next_job:
\* either it has just looked ("idle", no signal yet), or it looked before the
\* signal was sent ("checked")
PassedCheck(w) ==
    \/ wk[w].pc = "idle" /\ ~IsShutdown
    \/ wk[w].pc = "checked"

\* pop_next returned Some(job): the row as RETURNING * gives it
WorkerPop(w) ==
    /\ PassedCheck(w)
    /\ PopNextId(jobs, WorkerQueue(w)) # 0
    /\ Autocommit(PopNext(jobs, WorkerQueue(w), now))
    /\ wk' = [wk EXCEPT ![w] =
                [pc |-> "gate",
                 job |-> jobs'[PopNextId(jobs, WorkerQueue(w))]]]
    /\ UNCHANGED <<now, usedIds, genLog, failures, startup, watch, probe,
                   environ, children, reply, files, limiter, starts>>

\* the scheduler gate: run the job, or store it back as QUEUED
GateDecision(w) ==
    /\ wk[w].pc = "gate"
    /\ IF IsReady(wk[w].job, now, probe)
       THEN /\ wk' = [wk EXCEPT ![w].pc = "exec"]
            /\ UNCHANGED <<jobs, subjects, wlock, wjobs, wsubjects, enq>>
       ELSE /\ Autocommit(RepoUpdate(jobs,
                   [wk[w].job EXCEPT !.state = "QUEUED", !.started_at = None]))
            /\ wk' = [wk EXCEPT ![w] = [pc |-> "idle", job |-> NoJob]]
    /\ UNCHANGED <<now, usedIds, genLog, failures, startup, watch, probe,
                   environ, children, reply, files, limiter>>

WorkerGate(w) ==
    /\ GateDecision(w)
    /\ UNCHANGED starts

\* the gate, with the starts of job bodies counted up to MaxStarts
WorkerGateCounting(w) ==
    /\ GateDecision(w)
    /\ IF IsReady(wk[w].job, now, probe)
       THEN /\ starts[wk[w].job.id] < MaxStarts
            /\ starts' = [starts EXCEPT ![wk[w].job.id] = @ + 1]
       ELSE starts' = starts

\* what the worker stores for an execution outcome: "ok" (Ok(Ok)), "err"
\* (graceful failure, Ok(Err)), "panic" (JoinError)
Outcomes == {"ok", "err", "panic"}

\* OutcomeJob that hands a panic to the retry policy like a graceful failure
OutcomeJobRetriesPanic(job, outcome, t) ==
    IF outcome = "ok" THEN Complete(job, t)
    ELSE IF ShouldRetry(job) = "Retry"
         THEN PrepareForRetry(job)
         ELSE Fail(job, t)

OutcomeJob(job, outcome, t) ==
    IF outcome = "ok" THEN Complete(job, t)
    ELSE IF outcome = "err" /\ ShouldRetry(job) = "Retry"
         THEN PrepareForRetry(job)
         ELSE Fail(job, t)

\* the match on the execution result: the worker classifies the outcome and
\* stores the job
StoreOutcome(w, outcome) ==
    /\ wk[w].pc = "exec"
    /\ Autocommit(RepoUpdate(jobs, OutcomeJob(wk[w].job, outcome, now)))
    /\ wk' = [wk EXCEPT ![w] = [pc |-> "idle", job |-> NoJob]]
    /\ failures' = [failures EXCEPT ![wk[w].job.id] =
                        IF outcome = "err" THEN @ + 1 ELSE @]
    /\ UNCHANGED <<now, usedIds, genLog, startup, watch, probe, environ,
                   reply, files, limiter, starts>>

\* the spawned execution ends, whatever the executor did
WorkerFinish(w, outcome) ==
    /\ StoreOutcome(w, outcome)
    /\ UNCHANGED children

\* ---- RpcHandler::cancel ----
\* find_by_id, then update_state(id, Cancelled, Some(now))
CancelResult(js, id) ==
    IF id \notin DOMAIN js THEN "NotFound" ELSE UpdateStateResult(js, id)

Cancel(id) ==
    /\ Autocommit(UpdateState(jobs, id, "CANCELLED", now))
    /\ UNCHANGED <<now, wk, usedIds, genLog, failures, startup, watch, probe,
                   environ, children, reply, files, limiter, starts>>

\* ---- maintenance: gc_finished_jobs(retention) ----
Maintenance(retention) ==
    /\ Autocommit(GcFinishedJobs(jobs, now, retention))
    /\ UNCHANGED <<now, wk, usedIds, genLog, failures, startup, watch, probe,
                   environ, children, reply, files, limiter, starts>>

\* ---- the daemon dies and starts again: open transactions roll back, the
\* workers' tasks are gone, recover_orphaned_jobs runs before anything else ----
Restart(window) ==
    /\ jobs' = RecoverOrphanedJobs(jobs, now, window)
    /\ wjobs' = jobs'
    /\ wsubjects' = subjects
    /\ wlock' = NoOne
    /\ enq' = [c \in Clients |-> EnqLocals("idle")]
    /\ wk' = [w \in Workers |-> [pc |-> "idle", job |-> NoJob]]
    /\ startup' = "recovered"
    /\ watch' = ShutdownChannel
    /\ UNCHANGED <<subjects, now, usedIds, genLog, failures, probe,
                   environ, children, reply, files, limiter, starts>>

\* the daemon dies and starts again, and recover_orphaned_jobs returns Err
\* (find_by_state fails): main logs the error and goes on to start the RPC
\* server and the worker
RestartRecoveryFails ==
    /\ jobs' = jobs
    /\ wjobs' = jobs
    /\ wsubjects' = subjects
    /\ wlock' = NoOne
    /\ enq' = [c \in Clients |-> EnqLocals("idle")]
    /\ wk' = [w \in Workers |-> [pc |-> "idle", job |-> NoJob]]
    /\ startup' = "recovery_failed"
    /\ watch' = ShutdownChannel
    /\ UNCHANGED <<subjects, now, usedIds, genLog, failures, probe,
                   environ, children, reply, files, limiter, starts>>

\* the full lifecycle: one RPC caller enqueues at a time (concurrent callers
\* are the subject of SpecEnqueue), next to workers, cancel, GC and restart
Caller == CHOOSE c \in Clients : \A d \in Clients : c <= d

Next ==
    \/ \E req \in Requests : EnqBegin(Caller, req)
    \/ EnqNewSubject(Caller)
    \/ \E id \in Ids : EnqInsert(Caller, id)
    \/ EnqMarkSuperseded(Caller)
    \/ EnqCommit(Caller)
    \/ EnqReturn(Caller)
    \/ \E w \in Workers : WorkerPop(w)
    \/ \E w \in Workers : WorkerGate(w)
    \/ \E w \in Workers, outcome \in Outcomes : WorkerFinish(w, outcome)
    \/ \E id \in Ids : Cancel(id)
    \/ \E retention \in Durations : Maintenance(retention)
    \/ \E window \in Durations : Restart(window)
    \/ Tick

Spec == Init /\ [][Next]_vars

\* ---- the enqueue use case alone, under concurrent callers ----
NextEnqueue ==
    \/ \E c \in Clients, req \in Requests : EnqBegin(c, req)
    \/ \E c \in Clients : EnqNewSubject(c)
    \/ \E c \in Clients, id \in Ids : EnqInsert(c, id)
    \/ \E c \in Clients : EnqMarkSuperseded(c)
    \/ \E c \in Clients : EnqCommit(c)
    \/ \E c \in Clients : EnqDbError(c)
    \/ \E c \in Clients : EnqReturn(c)
    \/ Tick

SpecEnqueue == Init /\ [][NextEnqueue]_vars

\* ---- a store whose rows were written through JobRepository::insert ----
\* insert stores a job as built by its caller: with scheduling hints, a
\* deadline or TTL, another max_attempts, or as a previous daemon left it
\* (RUNNING, with or without pid and started_at)
SeedSubject(id) == IF id % 2 = 1 THEN "a.rs" ELSE "b.rs"

SeedGeneration(id) == (id + 1) \div 2

SeedRows(id) ==
    LET j == NewJob(id, 0, "default", SeedSubject(id), SeedGeneration(id))
    IN {j,
        [j EXCEPT !.schedule_at = 1],
        [j EXCEPT !.wait_for_event = TRUE],
        [j EXCEPT !.deadline = 0],
        [j EXCEPT !.ttl_ms = 0],
        [j EXCEPT !.max_attempts = 1],
        [j EXCEPT !.state = "RUNNING", !.started_at = 0],
        [j EXCEPT !.state = "RUNNING", !.started_at = 0, !.pid = 7],
        [j EXCEPT !.state = "RUNNING"]}

SeedStores ==
    UNION {{f \in [1..n -> UNION {SeedRows(i) : i \in 1..n}] :
                \A i \in 1..n : f[i].id = i} : n \in 1..MaxJobs}

InitSeeded ==
    /\ jobs \in SeedStores
    /\ subjects = [s \in {SeedSubject(i) : i \in DOMAIN jobs} |->
                      MaxGeneration(jobs, s)]
    /\ now = 0
    /\ wlock = NoOne
    /\ wjobs = jobs
    /\ wsubjects = subjects
    /\ enq = [c \in Clients |-> EnqLocals("idle")]
    /\ wk = [w \in Workers |-> [pc |-> "idle", job |-> NoJob]]
    /\ usedIds = DOMAIN jobs
    /\ genLog = [s \in Subjects |-> <<>>]
    /\ failures = [i \in Ids |-> 0]
    /\ startup = "recovered"
    /\ watch = ShutdownChannel
    /\ probe = QuietHost
    /\ environ = DaemonEnviron
    /\ children = <<>>
    /\ reply = NoReply
    /\ files = {}
    /\ limiter = NewLimiter
    /\ starts = [i \in Ids |-> 0]

NextSeeded ==
    \/ \E w \in Workers : WorkerPop(w)
    \/ \E w \in Workers : WorkerGate(w)
    \/ \E w \in Workers, outcome \in Outcomes : WorkerFinish(w, outcome)
    \/ \E id \in Ids : Cancel(id)
    \/ \E retention \in Durations : Maintenance(retention)
    \/ \E window \in Durations : Restart(window)
    \/ Tick

SpecSeeded == InitSeeded /\ [][NextSeeded]_vars

\* daemon startup over a store left by an earlier run: recovery succeeds or
\* fails, then the worker loop and the RPC handlers run
NextStartup ==
    \/ \E window \in Durations : Restart(window)
    \/ RestartRecoveryFails
    \/ \E w \in Workers : WorkerPop(w)
    \/ \E w \in Workers : WorkerGate(w)
    \/ \E w \in Workers, outcome \in Outcomes : WorkerFinish(w, outcome)
    \/ \E id \in Ids : Cancel(id)

SpecStartup == InitSeeded /\ [][NextStartup]_vars

\* ---- the scheduler gate over every combination of hints ----
\* a job inserted with any of the four scheduling hints
GateRows(id) ==
    LET j == NewJob(id, 0, "default", SeedSubject(id), SeedGeneration(id))
    IN {[j EXCEPT !.schedule_at = s, !.wait_for_idle = i,
                  !.require_charging = c, !.wait_for_event = e] :
            s \in {None, 1}, i \in BOOLEAN, c \in BOOLEAN, e \in BOOLEAN}

InitGate ==
    /\ \E j \in GateRows(1) : jobs = <<j>>
    /\ subjects = [s \in {SeedSubject(1)} |-> SeedGeneration(1)]
    /\ now = 0
    /\ wlock = NoOne
    /\ wjobs = jobs
    /\ wsubjects = subjects
    /\ enq = [c \in Clients |-> EnqLocals("idle")]
    /\ wk = [w \in Workers |-> [pc |-> "idle", job |-> NoJob]]
    /\ usedIds = DOMAIN jobs
    /\ genLog = [s \in Subjects |-> <<>>]
    /\ failures = [i \in Ids |-> 0]
    /\ startup = "recovered"
    /\ watch = ShutdownChannel
    /\ probe \in Probes
    /\ environ = DaemonEnviron
    /\ children = <<>>
    /\ reply = NoReply
    /\ files = {}
    /\ limiter = NewLimiter
    /\ starts = [i \in Ids |-> 0]

\* the host changes between two readings; the build stays what it is
Measure(p) ==
    /\ p \in Probes
    /\ p.platform = probe.platform
    /\ p # probe
    /\ probe' = p
    /\ UNCHANGED <<jobs, subjects, now, wlock, wjobs, wsubjects, enq, wk,
                   usedIds, genLog, failures, startup, watch, environ,
                   children, reply, files,
                   limiter, starts>>

NextGate ==
    \/ \E p \in Probes : Measure(p)
    \/ \E w \in Workers : WorkerPop(w)
    \/ \E w \in Workers : WorkerGate(w)
    \/ \E w \in Workers, outcome \in Outcomes : WorkerFinish(w, outcome)
    \/ Tick

SpecGate == InitGate /\ [][NextGate]_vars

\* ---- the retry policy over jobs with small retry budgets ----
\* jobs inserted with max_attempts 0, 1 or 2
RetryRows(id) ==
    LET j == NewJob(id, 0, "default", SeedSubject(id), SeedGeneration(id))
    IN {[j EXCEPT !.max_attempts = m] : m \in 0..2}

InitRetry ==
    /\ jobs \in UNION {{f \in [1..n -> UNION {RetryRows(i) : i \in 1..n}] :
                            \A i \in 1..n : f[i].id = i} : n \in 1..MaxJobs}
    /\ subjects = [s \in {SeedSubject(i) : i \in DOMAIN jobs} |->
                      MaxGeneration(jobs, s)]
    /\ now = 0
    /\ wlock = NoOne
    /\ wjobs = jobs
    /\ wsubjects = subjects
    /\ enq = [c \in Clients |-> EnqLocals("idle")]
    /\ wk = [w \in Workers |-> [pc |-> "idle", job |-> NoJob]]
    /\ usedIds = DOMAIN jobs
    /\ genLog = [s \in Subjects |-> <<>>]
    /\ failures = [i \in Ids |-> 0]
    /\ startup = "recovered"
    /\ watch = ShutdownChannel
    /\ probe = QuietHost
    /\ environ = DaemonEnviron
    /\ children = <<>>
    /\ reply = NoReply
    /\ files = {}
    /\ limiter = NewLimiter
    /\ starts = [i \in Ids |-> 0]

NextRetry ==
    \/ \E w \in Workers : WorkerPop(w)
    \/ \E w \in Workers : WorkerGate(w)
    \/ \E w \in Workers, outcome \in Outcomes : WorkerFinish(w, outcome)
    \/ Tick

SpecRetry == InitRetry /\ [][NextRetry]_vars

\* ---- SubprocessExecutor ----
\* the allowlist the daemon builds its executor with
EnvAllowlist == {"PATH", "HOME", "USER"}

\* filter_env: the entries of env whose name is in the allowlist
FilterEnv(env) == [name \in DOMAIN env \cap EnvAllowlist |-> env[name]]

\* Command::new(..).envs(filtered): the child inherits the daemon's
\* environment, and the filtered entries are added to it or replace it
ChildEnv(env) ==
    [name \in DOMAIN environ \cup DOMAIN FilterEnv(env) |->
        IF name \in DOMAIN FilterEnv(env) THEN FilterEnv(env)[name]
        ELSE environ[name]]

\* parse_payload: timeout_ms = (deadline - now).max(1000), one time unit
\* standing for 1000 ms; no deadline, no timeout
TimeoutMs(job, t) ==
    IF job.deadline = None THEN None
    ELSE IF job.deadline - t > 1 THEN job.deadline - t ELSE 1

\* what the command does: it cannot be started, it exits with status 0, it
\* exits with another status, or it runs on until something stops it
Runs == {"spawn_failed", "exit0", "exit1", "hang"}

\* execute as the worker sees it: Ok(Success) is "ok"; SpawnFailed, a status
\* other than Success and Timeout are graceful failures
ExecuteOutcome(run) == IF run = "exit0" THEN "ok" ELSE "err"

\* execute_job_static, execute and the match on its result: the command is
\* spawned with the child environment and the timeout, it ends (or the
\* timeout cuts the wait), and the worker stores the outcome
WorkerExecute(w, run) ==
    /\ wk[w].pc = "exec"
    /\ run = "hang" => TimeoutMs(wk[w].job, now) # None
    /\ children' =
          IF run = "spawn_failed" THEN children
          ELSE Append(children, [job |-> wk[w].job.id,
                                 env |-> ChildEnv(wk[w].job.payload_env),
                                 timeout_ms |-> TimeoutMs(wk[w].job, now),
                                 spawned_at |-> now])
    /\ StoreOutcome(w, ExecuteOutcome(run))

\* payload env maps a job can ask for: a search path, a loader override
PayloadEnvs ==
    {NoEnv,
     [name \in {"PATH"} |-> "job"],
     [name \in {"LD_PRELOAD"} |-> "job"],
     [name \in {"PATH", "LD_PRELOAD"} |-> "job"]}

\* environments the daemon can be started in: empty, a search path, a
\* credential, both
DaemonEnvirons ==
    {[name \in names |-> "daemon"] : names \in SUBSET {"PATH", "API_KEY"}}

\* jobs inserted with any payload env and no deadline, a deadline at 0 or at 1
ExecutorRows(id) ==
    LET j == NewJob(id, 0, "default", SeedSubject(id), SeedGeneration(id))
    IN {[j EXCEPT !.payload_env = e, !.deadline = d, !.max_attempts = 1] :
            e \in PayloadEnvs, d \in {None, 0, 1}}

InitExecutor ==
    /\ \E j \in ExecutorRows(1) : jobs = <<j>>
    /\ subjects = [s \in {SeedSubject(1)} |-> SeedGeneration(1)]
    /\ now = 0
    /\ wlock = NoOne
    /\ wjobs = jobs
    /\ wsubjects = subjects
    /\ enq = [c \in Clients |-> EnqLocals("idle")]
    /\ wk = [w \in Workers |-> [pc |-> "idle", job |-> NoJob]]
    /\ usedIds = DOMAIN jobs
    /\ genLog = [s \in Subjects |-> <<>>]
    /\ failures = [i \in Ids |-> 0]
    /\ startup = "recovered"
    /\ watch = ShutdownChannel
    /\ probe = QuietHost
    /\ environ \in DaemonEnvirons
    /\ children = <<>>
    /\ reply = NoReply
    /\ files = {}
    /\ limiter = NewLimiter
    /\ starts = [i \in Ids |-> 0]

NextExecutor ==
    \/ \E w \in Workers : WorkerPop(w)
    \/ \E w \in Workers : WorkerGate(w)
    \/ \E w \in Workers, run \in Runs : WorkerExecute(w, run)
    \/ Tick

SpecExecutor == InitExecutor /\ [][NextExecutor]_vars

\* ---- dev.enqueue.v1 with requests at the limits of validation ----
NextValidate ==
    \/ \E req \in BoundaryRequests : EnqBegin(Caller, req)
    \/ EnqNewSubject(Caller)
    \/ \E id \in Ids : EnqInsert(Caller, id)
    \/ EnqMarkSuperseded(Caller)
    \/ EnqCommit(Caller)
    \/ EnqReturn(Caller)

SpecValidate == Init /\ [][NextValidate]_vars

\* ---- Worker::run: the loop around process_next_job ----
\* the shutdown signal: ShutdownSender::shutdown, tx.send(true), sent once
Shutdown ==
    /\ ~watch.value
    /\ watch' = [watch EXCEPT !.value = TRUE, !.version = @ + 1]
    /\ UNCHANGED <<jobs, subjects, now, wlock, wjobs, wsubjects, enq, wk,
                   usedIds, genLog, failures, startup, probe,
                   environ, children, reply, files, limiter, starts>>

\* loop top: is_shutdown() is true, break; run returns Ok
WorkerObservesShutdown(w) ==
    /\ wk[w].pc = "idle"
    /\ IsShutdown
    /\ wk' = [wk EXCEPT ![w].pc = "stopped"]
    /\ UNCHANGED <<jobs, subjects, now, wlock, wjobs, wsubjects, enq,
                   usedIds, genLog, failures, startup, watch, probe,
                   environ, children, reply, files, limiter, starts>>

\* loop top: is_shutdown() is false; process_next_job is called, and the
\* signal may be sent before it reaches pop_next
WorkerPassesCheck(w) ==
    /\ wk[w].pc = "idle"
    /\ ~IsShutdown
    /\ wk' = [wk EXCEPT ![w].pc = "checked"]
    /\ UNCHANGED <<jobs, subjects, now, wlock, wjobs, wsubjects, enq,
                   usedIds, genLog, failures, startup, watch, probe,
                   environ, children, reply, files, limiter, starts>>

\* the two sleeps of the loop: IDLE_SLEEP_DURATION after Ok(false),
\* ERROR_RECOVERY_SLEEP_DURATION after Err
SleepKinds == {"sleep", "errsleep"}

\* process_next_job returns without a job: Ok(false) (CPU throttling, or
\* pop_next found nothing) or Err (pop_next failed); the worker enters
\* select! { sleep, shutdown.wait() }
WorkerSleeps(w, kind) ==
    /\ PassedCheck(w)
    /\ wk' = [wk EXCEPT ![w].pc = kind]
    /\ UNCHANGED <<jobs, subjects, now, wlock, wjobs, wsubjects, enq,
                   usedIds, genLog, failures, startup, watch, probe,
                   environ, children, reply, files, limiter, starts>>

\* select!: the sleep completes first; back to the loop top
WorkerSleepEnds(w) ==
    /\ wk[w].pc \in SleepKinds
    /\ wk' = [wk EXCEPT ![w].pc = "idle"]
    /\ UNCHANGED <<jobs, subjects, now, wlock, wjobs, wsubjects, enq,
                   usedIds, genLog, failures, startup, watch, probe,
                   environ, children, reply, files, limiter, starts>>

\* select!: shutdown.wait() completes; break, run returns Ok
WorkerWakes(w) ==
    /\ wk[w].pc \in SleepKinds
    /\ WaitReturns(w)
    /\ wk' = [wk EXCEPT ![w].pc = "stopped"]
    /\ watch' = [watch EXCEPT !.seen[w] = watch.version]
    /\ UNCHANGED <<jobs, subjects, now, wlock, wjobs, wsubjects, enq,
                   usedIds, genLog, failures, startup, probe,
                   environ, children, reply, files, limiter, starts>>

\* stores the loop starts on: QUEUED jobs that run (one retry at most) or
\* that the gate sends back every time
ShutdownStores ==
    {f \in SeedStores : \A i \in DOMAIN f :
        /\ f[i].state = "QUEUED"
        /\ f[i].deadline = None /\ f[i].ttl_ms = None /\ f[i].schedule_at = None
        /\ f[i].max_attempts = 1 \/ f[i].wait_for_event}

InitShutdown == InitSeeded /\ jobs \in ShutdownStores

\* one step of worker w's task
WorkerStep(w) ==
    \/ WorkerObservesShutdown(w)
    \/ WorkerPassesCheck(w)
    \/ WorkerPop(w)
    \/ \E kind \in SleepKinds : WorkerSleeps(w, kind)
    \/ WorkerSleepEnds(w)
    \/ WorkerWakes(w)
    \/ WorkerGate(w)
    \/ \E outcome \in Outcomes : WorkerFinish(w, outcome)

NextShutdown ==
    \/ Shutdown
    \/ \E w \in Workers : WorkerStep(w)

\* the runtime keeps scheduling every worker task, timers fire and
\* executions end
SpecShutdown ==
    InitShutdown /\ [][NextShutdown]_vars
        /\ \A w \in Workers : WF_vars(WorkerStep(w))

\* ---- the loop with store errors ----
\* an Err arm that leaves the loop
ErrorArmBreaks == "stopped"

\* where the Err arm of the loop takes the worker: the error-recovery sleep
ErrorArm == "errsleep"

\* job_repo.update returns Err while the worker holds a job (after the gate
\* turned it away, or with the outcome of its execution): `?` hands the error
\* to the loop, and the row stays as pop_next left it
WorkerStoreError(w) ==
    /\ wk[w].pc \in {"gate", "exec"}
    /\ wk' = [wk EXCEPT ![w] = [pc |-> ErrorArm, job |-> NoJob]]
    /\ UNCHANGED <<jobs, subjects, now, wlock, wjobs, wsubjects, enq,
                   usedIds, genLog, failures, startup, watch, probe, environ,
                   children, reply, files,
                   limiter, starts>>

NextLoop ==
    \/ NextShutdown
    \/ \E w \in Workers : WorkerStoreError(w)

SpecLoop == InitShutdown /\ [][NextLoop]_vars

\* ---- a subject enqueued again while its first job is in process ----
\* the store holds the first job of a.rs; the caller enqueues a.rs again at
\* any point, the workers, cancel and maintenance run as in the daemon
InitObsolete ==
    /\ InitSeeded
    /\ jobs = <<NewJob(1, 0, "default", "a.rs", 1)>>

NextObsolete ==
    \/ EnqBegin(Caller, PlainRequest)
    \/ \E id \in Ids : EnqInsert(Caller, id)
    \/ EnqMarkSuperseded(Caller)
    \/ EnqCommit(Caller)
    \/ \E w \in Workers : WorkerPop(w)
    \/ \E w \in Workers : WorkerGate(w)
    \/ \E w \in Workers, outcome \in Outcomes : WorkerFinish(w, outcome)
    \/ \E id \in Ids : Cancel(id)
    \/ \E retention \in Durations : Maintenance(retention)
    \/ Tick

\* the worker tasks and the periodic maintenance task keep being scheduled
\* and the clock runs; callers of enqueue and cancel owe nothing
SpecObsolete ==
    InitObsolete /\ [][NextObsolete]_vars
        /\ \A w \in Workers :
              WF_vars(WorkerPop(w) \/ WorkerGate(w)
                        \/ \E outcome \in Outcomes : WorkerFinish(w, outcome))
        /\ WF_vars(\E retention \in Durations : Maintenance(retention))
        /\ WF_vars(Tick)

\* ---- JobRepository::update called with a Job read earlier ----
\* the Jobs a holder of the port may hand to update: a job of any id, ended
\* at any time
UpdateInputs ==
    {Complete(NewJob(id, 0, "default", SeedSubject(id), SeedGeneration(id)), t) :
        id \in Ids, t \in Times}

\* job_repo.update(&job)
UpdateCall(job) ==
    /\ Autocommit(RepoUpdate(jobs, job))
    /\ reply' = [call |-> "update", id |-> job.id,
                 rows_affected |-> RepoUpdateRows(jobs, job),
                 result |-> RepoUpdateResult(jobs, job)]
    /\ UNCHANGED <<now, wk, usedIds, genLog, failures, startup, watch, probe,
                   environ, children, files, limiter, starts>>

InitUpdate ==
    /\ InitSeeded
    /\ jobs = <<NewJob(1, 0, "default", SeedSubject(1), SeedGeneration(1))>>

NextUpdate ==
    \/ \E job \in UpdateInputs : UpdateCall(job)
    \/ \E w \in Workers : WorkerPop(w)
    \/ \E w \in Workers : WorkerGate(w)
    \/ \E w \in Workers, outcome \in Outcomes : WorkerFinish(w, outcome)
    \/ \E retention \in Durations : Maintenance(retention)
    \/ Tick

SpecUpdate == InitUpdate /\ [][NextUpdate]_vars

\* ---- a queue whose first job never passes the gate ----
\* jobs that the gate turns away at every time of the model: an event to wait
\* for, or a schedule_at beyond the clock's span
Blockers(id) ==
    LET j == NewJob(id, 0, "default", SeedSubject(id), SeedGeneration(id))
    IN {[j EXCEPT !.wait_for_event = TRUE, !.priority = p] : p \in {0, 10}}
       \cup {[j EXCEPT !.schedule_at = MaxTime + 1, !.priority = p] :
                p \in {0, 10}}

\* job 1 is a blocker; job 2, of another subject and the same queue, carries
\* no hint and sorts behind it (lower priority, or same priority and
\* created_at and the larger id)
InitStarve ==
    /\ InitSeeded
    /\ \E b \in Blockers(1) :
          jobs = <<b, NewJob(2, 0, "default", SeedSubject(2), SeedGeneration(2))>>

NextStarve ==
    \/ \E w \in Workers : WorkerPop(w)
    \/ \E w \in Workers : WorkerGate(w)
    \/ \E w \in Workers, outcome \in Outcomes : WorkerFinish(w, outcome)
    \/ Tick

\* every worker task keeps running and the clock runs
SpecStarve ==
    InitStarve /\ [][NextStarve]_vars
        /\ \A w \in Workers :
              WF_vars(WorkerPop(w) \/ WorkerGate(w)
                        \/ \E outcome \in Outcomes : WorkerFinish(w, outcome))
        /\ WF_vars(Tick)

\* ---- the daemon starts over the store of a crashed run and keeps running ----
\* what a crashed daemon leaves: plain QUEUED jobs and jobs RUNNING since
\* time 0, in-process or with a child's pid
CrashedStores ==
    {f \in SeedStores : \A i \in DOMAIN f :
        /\ f[i].schedule_at = None /\ ~f[i].wait_for_event
        /\ f[i].deadline = None /\ f[i].ttl_ms = None
        /\ f[i].max_attempts = DEFAULT_MAX_ATTEMPTS
        /\ f[i].state = "RUNNING" => f[i].started_at # None}

\* the daemon is down; main has not run recovery yet
InitOrphan ==
    /\ jobs \in CrashedStores
    /\ subjects = [s \in {SeedSubject(i) : i \in DOMAIN jobs} |->
                      MaxGeneration(jobs, s)]
    /\ now = 0
    /\ wlock = NoOne
    /\ wjobs = jobs
    /\ wsubjects = subjects
    /\ enq = [c \in Clients |-> EnqLocals("idle")]
    /\ wk = [w \in Workers |-> [pc |-> "idle", job |-> NoJob]]
    /\ usedIds = DOMAIN jobs
    /\ genLog = [s \in Subjects |-> <<>>]
    /\ failures = [i \in Ids |-> 0]
    /\ startup = "down"
    /\ watch = ShutdownChannel
    /\ probe = QuietHost
    /\ environ = DaemonEnviron
    /\ children = <<>>
    /\ reply = NoReply
    /\ files = {}
    /\ limiter = NewLimiter
    /\ starts = [i \in Ids |-> 0]

\* the worker task exists once main has passed recovery
Started == startup = "recovered"

\* one step of worker w's task in the started daemon
OrphanWorkerStep(w) ==
    /\ Started
    /\ \/ WorkerPop(w)
       \/ WorkerGate(w)
       \/ \E outcome \in Outcomes : WorkerFinish(w, outcome)
       \/ WorkerSleepEnds(w)

\* the store fails under an update of worker w
OrphanStoreError(w) == Started /\ WorkerStoreError(w)

NextOrphan ==
    \/ \E window \in Durations : Restart(window)
    \/ \E w \in Workers : OrphanWorkerStep(w)
    \/ \E w \in Workers : OrphanStoreError(w)
    \/ Tick

\* main runs recovery when the daemon is down, every worker task keeps
\* running and the clock runs; crashes and store errors are owed to nobody
SpecOrphan ==
    InitOrphan /\ [][NextOrphan]_vars
        /\ WF_vars(~Started /\ \E window \in Durations : Restart(window))
        /\ \A w \in Workers : WF_vars(OrphanWorkerStep(w))
        /\ WF_vars(Tick)

\* ---- retries and crashes over the life of a job ----
\* jobs with retry budgets 0..2 run, fail and are retried while the daemon
\* crashes and recovers at any point; every start of a body is counted
NextBounded ==
    \/ \E w \in Workers : WorkerPop(w)
    \/ \E w \in Workers : WorkerGateCounting(w)
    \/ \E w \in Workers, outcome \in Outcomes : WorkerFinish(w, outcome)
    \/ \E window \in Durations : Restart(window)
    \/ Tick

SpecBounded == InitRetry /\ [][NextBounded]_vars

\* ---- maintenance and the log files; the clock of this specification counts
\* days ----
\* the log file of job id
LogPath(id) == id

\* gc_artifacts: the log_path of every DONE, FAILED or SUPERSEDED row with
\* finished_at < cutoff and a log_path; each of them is unlinked
ArtifactPaths(js, t, retention) ==
    {js[i].log_path : i \in {k \in GcRows(js, t - retention) :
                                js[k].log_path # None}}

GcArtifacts(fs, js, t, retention) == fs \ ArtifactPaths(js, t, retention)

\* one maintenance pass at time t: gc_finished_jobs(job_days) deletes rows,
\* then gc_artifacts(artifact_days) reads the rows that are left
MaintenancePass(t, job_days, artifact_days) ==
    /\ wlock = NoOne
    /\ jobs' = GcFinishedJobs(jobs, t, job_days)
    /\ wjobs' = jobs'
    /\ enq' = Invalidate(enq, jobs' # jobs)
    /\ files' = GcArtifacts(files, jobs', t, artifact_days)
    /\ UNCHANGED <<subjects, wsubjects, wlock, wk, usedIds, genLog, failures,
                   watch, probe, environ, children, reply, limiter, starts>>

Up == startup \in {"recovered", "scheduled"}

\* MaintenanceScheduler::run: the interval's first tick, right after the spawn
FirstPass ==
    /\ startup = "recovered"
    /\ startup' = "scheduled"
    /\ MaintenancePass(now, FINISHED_JOB_RETENTION_DAYS,
                       ARTIFACT_RETENTION_DAYS)
    /\ UNCHANGED now

\* MaintenanceScheduler::run: 24 hours later the interval ticks again
ScheduledPass ==
    /\ startup = "scheduled"
    /\ now < MaxDays
    /\ now' = now + 1
    /\ MaintenancePass(now', FINISHED_JOB_RETENTION_DAYS,
                       ARTIFACT_RETENTION_DAYS)
    /\ UNCHANGED startup

\* RpcHandler::maintenance (admin.maintenance.v1)
AdminMaintenance ==
    /\ Up
    /\ MaintenancePass(now, ADMIN_RETENTION_DAYS, ADMIN_RETENTION_DAYS)
    /\ UNCHANGED <<now, startup>>

\* a log file is written for job id, which is waiting or running, and its
\* path stored with update
AttachLog(id) ==
    /\ Up
    /\ id \in DOMAIN jobs
    /\ jobs[id].state \in {"QUEUED", "RUNNING"}
    /\ jobs[id].log_path = None
    /\ Autocommit(RepoUpdate(jobs, [jobs[id] EXCEPT !.log_path = LogPath(id)]))
    /\ files' = files \cup {LogPath(id)}
    /\ UNCHANGED <<now, wk, usedIds, genLog, failures, startup, watch, probe,
                   environ, children, reply, limiter, starts>>

LogsWorkerStep(w) ==
    /\ Up
    /\ \/ WorkerPop(w)
       \/ WorkerGate(w)
       \/ \E outcome \in Outcomes : WorkerFinish(w, outcome)

\* the daemon stops
DaemonStops ==
    /\ Up
    /\ startup' = "down"
    /\ UNCHANGED <<jobs, subjects, now, wlock, wjobs, wsubjects, enq, wk,
                   usedIds, genLog, failures, watch, probe, environ, children,
                   reply, files, limiter, starts>>

\* a day on which the daemon is not running
DownDay ==
    /\ startup = "down"
    /\ now < MaxDays
    /\ now' = now + 1
    /\ UNCHANGED <<jobs, subjects, wlock, wjobs, wsubjects, enq, wk, usedIds,
                   genLog, failures, startup, watch, probe, environ, children,
                   reply, files, limiter, starts>>

\* main: recovery, RPC server and worker; the scheduler is spawned last
Boot(window) == startup = "down" /\ Restart(window)

InitLogs ==
    /\ InitSeeded
    /\ jobs = <<NewJob(1, 0, "default", "a.rs", 1)>>

NextLogs ==
    \/ \E w \in Workers : LogsWorkerStep(w)
    \/ \E id \in Ids : AttachLog(id)
    \/ FirstPass
    \/ ScheduledPass
    \/ AdminMaintenance
    \/ DaemonStops
    \/ DownDay
    \/ \E window \in Durations : Boot(window)

SpecLogs == InitLogs /\ [][NextLogs]_vars

\* ---- the rate limiter: RateLimiter::new(MaxTokens, DEFAULT_RATE_PER_SEC);
\* limiter.elapsed_ms is the time since its creation ----
Min(a, b) == IF a <= b THEN a ELSE b

\* elapsed_ms.saturating_sub(last_refill_ms)
DeltaMs(l) ==
    IF l.elapsed_ms >= l.last_refill_ms
    THEN l.elapsed_ms - l.last_refill_ms ELSE 0

\* tokens_to_add = delta_ms * refill_rate / 1000, an integer division
TokensToAdd(l) == (DeltaMs(l) * DEFAULT_RATE_PER_SEC) \div 1000

\* new_tokens = min(tokens + tokens_to_add, max_tokens)
RefilledTokens(l) == Min(l.tokens + TokensToAdd(l), MaxTokens)

\* RateLimiter::check: with a token left it stores (new_tokens - 1,
\* elapsed_ms) and allows; without one it stores (new_tokens, elapsed_ms)
\* and turns the request down
Check ==
    /\ limiter' =
          IF RefilledTokens(limiter) >= 1
          THEN [limiter EXCEPT !.tokens = RefilledTokens(limiter) - 1,
                               !.last_refill_ms = limiter.elapsed_ms,
                               !.granted_ms = limiter.elapsed_ms]
          ELSE [limiter EXCEPT !.tokens = RefilledTokens(limiter),
                               !.last_refill_ms = limiter.elapsed_ms]
    /\ reply' = [call |-> "check",
                 result |-> IF RefilledTokens(limiter) >= 1
                            THEN "allowed" ELSE "throttled"]
    /\ UNCHANGED <<jobs, subjects, now, wlock, wjobs, wsubjects, enq, wk,
                   usedIds, genLog, failures, startup, watch, probe, environ,
                   children, files, starts>>

\* Instant::now: a millisecond passes
MillisecondPasses ==
    /\ limiter.elapsed_ms < MaxElapsedMs
    /\ limiter' = [limiter EXCEPT !.elapsed_ms = @ + 1]
    /\ UNCHANGED <<jobs, subjects, now, wlock, wjobs, wsubjects, enq, wk,
                   usedIds, genLog, failures, startup, watch, probe, environ,
                   children, reply, files, starts>>

NextLimiter == Check \/ MillisecondPasses

\* the daemon has just started: RpcHandler::new built the limiter
SpecLimiter == Init /\ [][NextLimiter]_vars

\* ======================= properties =======================
\* the terminal states
TerminalStates == {"DONE", "FAILED", "SUPERSEDED", "CANCELLED"}

IsTerminal(state) == state \in TerminalStates

\* rows of one subject
RowsOf(js, subject_key) == {i \in DOMAIN js : js[i].subject_key = subject_key}

QueuedOf(js, subject_key) ==
    {i \in RowsOf(js, subject_key) : js[i].state = "QUEUED"}

\* the step in which pop_next hands worker w a job
PopStep(w) == wk[w].pc \in {"idle", "checked"} /\ wk'[w].pc = "gate"

\* the step in which worker w stores the outcome of an execution
FinishStep(w) == wk[w].pc = "exec" /\ wk'[w].pc = "idle" /\ jobs' # jobs

\* the step in which an enqueue for subject_key commits
CommitStep(subject_key) == genLog'[subject_key] # genLog[subject_key]

\* C1: no duplicate dispatch: whenever pop_next hands a worker a job, that job
\* was QUEUED and is now RUNNING, it is the only row the call changed, and no
\* other worker holds it; so workers that each popped once hold distinct jobs
C1_NoDuplicateDispatch ==
    [][\A w \in Workers : PopStep(w) =>
          LET id == wk'[w].job.id
          IN /\ id \in DOMAIN jobs
             /\ jobs[id].state = "QUEUED"
             /\ jobs'[id].state = "RUNNING"
             /\ \A k \in DOMAIN jobs \ {id} : jobs'[k] = jobs[k]
             /\ \A v \in Workers \ {w} :
                    ~(wk'[v].pc \in {"gate", "exec"} /\ wk'[v].job.id = id)]_vars

\* C1 witness: two eligible jobs, two workers popped once each, and they hold
\* the two distinct jobs
C1_TwoWorkersHoldDistinctJobs ==
    \E w, v \in Workers :
        /\ w # v
        /\ wk[w].pc \in {"gate", "exec"} /\ wk[v].pc \in {"gate", "exec"}
        /\ wk[w].job.id # wk[v].job.id
        /\ jobs[wk[w].job.id].state = "RUNNING"
        /\ jobs[wk[v].job.id].state = "RUNNING"

\* C2: generation monotonicity: for every subject the generations of the
\* committed enqueues are 1, 2, 3, ... in commit order, whatever enqueues
\* were rejected or rolled back in between
C2_GenerationsContiguous ==
    \A s \in Subjects : \A i \in 1..Len(genLog[s]) : genLog[s][i] = i

\* C2 witness: a second enqueue of a subject committed while another caller's
\* enqueue had failed and rolled back
C2_SecondCommitNextToRollback ==
    /\ Len(genLog["a.rs"]) = 2
    /\ \E c \in Clients : enq[c].pc = "failed"

\* C3: concurrent enqueues for one subject all succeed by serializing: no
\* enqueue fails while another enqueue for the same subject is in flight, and
\* the committed rows of a subject carry the generations 1..N, the newest
\* QUEUED, the others SUPERSEDED, with latest_generation = N
C3_ConcurrentEnqueuesAllSucceed ==
    /\ \A c \in Clients : enq[c].pc = "failed" =>
          \A d \in Clients \ {c} : enq[d].req.subject_key # enq[c].req.subject_key
    /\ \A s \in Subjects :
          LET n == Len(genLog[s])
          IN /\ {jobs[i].generation : i \in RowsOf(jobs, s)} = 1..n
             /\ Cardinality(RowsOf(jobs, s)) = n
             /\ \A i \in RowsOf(jobs, s) :
                    jobs[i].state = IF jobs[i].generation = n
                                    THEN "QUEUED" ELSE "SUPERSEDED"
             /\ n > 0 => subjects[s] = n

\* C4: right after an enqueue for subject S commits, the only QUEUED job of S
\* is the one just inserted, and every job of S that was QUEUED before the
\* commit is SUPERSEDED
C4_OneQueuedAfterCommit ==
    [][\A s \in Subjects : CommitStep(s) =>
          /\ \A i \in QueuedOf(jobs', s) :
                 i \notin DOMAIN jobs /\ jobs'[i].generation = subjects'[s]
          /\ Cardinality(QueuedOf(jobs', s)) = 1
          /\ \A i \in QueuedOf(jobs, s) : jobs'[i].state = "SUPERSEDED"]_vars

\* C4 witness: a subject whose first job was still QUEUED when the second
\* enqueue committed
C4_OlderQueuedSuperseded ==
    \E i, k \in RowsOf(jobs, "a.rs") :
        /\ jobs[i].generation = 1 /\ jobs[i].state = "SUPERSEDED"
        /\ jobs[i].started_at = None
        /\ jobs[k].generation = 2 /\ jobs[k].state = "QUEUED"

\* C5: terminal stability, the case of a job cancelled while a worker holds
\* it: once a row is CANCELLED no step changes its state (the row may only
\* disappear)
C5_CancelledStaysCancelled ==
    [][\A i \in DOMAIN jobs :
          jobs[i].state = "CANCELLED" /\ i \in DOMAIN jobs' =>
              jobs'[i].state = "CANCELLED"]_vars

\* C6: retry bound: every stored job has attempts <= max_attempts, and a job
\* the worker stores as FAILED after a graceful failure (the retry policy
\* returned Failed) has attempts = max_attempts
C6_RetryBound ==
    [][/\ \A i \in DOMAIN jobs' : jobs'[i].attempts <= jobs'[i].max_attempts
       /\ \A w \in Workers :
            (FinishStep(w) /\ failures' # failures
                /\ jobs'[wk[w].job.id].state = "FAILED") =>
                    jobs'[wk[w].job.id].attempts
                        = jobs'[wk[w].job.id].max_attempts]_vars

\* C6 witness: a job FAILED by retry exhaustion, its attempts at the maximum
C6_FailedByExhaustion ==
    \E i \in DOMAIN jobs :
        /\ jobs[i].state = "FAILED"
        /\ jobs[i].attempts = jobs[i].max_attempts
        /\ jobs[i].finished_at # None
        /\ failures[i] > jobs[i].attempts

\* C7 as stated: when the worker stores the N-th graceful failure of a job
\* with max_attempts = N, the job is FAILED with attempts = N
C7_FailedAfterMaxFailures ==
    [][\A w \in Workers :
          (FinishStep(w)
              /\ failures'[wk[w].job.id] = failures[wk[w].job.id] + 1
              /\ failures'[wk[w].job.id] = wk[w].job.max_attempts) =>
                  /\ jobs'[wk[w].job.id].state = "FAILED"
                  /\ jobs'[wk[w].job.id].attempts = wk[w].job.max_attempts]_vars

\* C7 amended: max_attempts counts retries. The first N graceful failures the
\* worker stores each requeue the job with attempts = number of failures so
\* far; the (N+1)-th stores it FAILED with attempts = N; and pop_next never
\* hands out a job that has failed N+1 times
C7_FailedAfterOneMoreFailure ==
    [][\A w \in Workers :
          /\ (FinishStep(w)
                /\ failures'[wk[w].job.id] = failures[wk[w].job.id] + 1) =>
                LET id == wk[w].job.id
                    N == wk[w].job.max_attempts
                IN IF failures'[id] = N + 1
                   THEN jobs'[id].state = "FAILED" /\ jobs'[id].attempts = N
                   ELSE /\ failures'[id] <= N
                        /\ jobs'[id].state = "QUEUED"
                        /\ jobs'[id].attempts = failures'[id]
          /\ PopStep(w) =>
                failures[wk'[w].job.id] <= wk'[w].job.max_attempts]_vars

\* C7 witness: a job FAILED with attempts = N after N + 1 stored failures
C7_FailedAfterFourFailures ==
    \E i \in DOMAIN jobs :
        /\ jobs[i].state = "FAILED"
        /\ jobs[i].attempts = jobs[i].max_attempts
        /\ failures[i] = jobs[i].max_attempts + 1

\* C8: pop_next hands out a job only if its generation equals the
\* latest_generation of its subject
C8_PopsOnlyLatestGeneration ==
    [][\A w \in Workers : PopStep(w) =>
          wk'[w].job.generation = subjects[wk'[w].job.subject_key]]_vars

\* eligible jobs of a queue: QUEUED, of the queue, of their subject's
\* latest_generation
Eligible(js, subj, queue) ==
    {i \in DOMAIN js : /\ js[i].queue = queue
                       /\ js[i].state = "QUEUED"
                       /\ js[i].generation = subj[js[i].subject_key]}

\* C9: pop_next returns the eligible job of the queue that is first by
\* (priority desc, created_at asc, id asc), and none exactly when the queue
\* has no eligible job; jobs of other queues are never returned
C9_PopsFirstEligible ==
    [][/\ \A q \in Queues :
            PopNextId(jobs, q) = 0 <=> Eligible(jobs, subjects, q) = {}
       /\ \A w \in Workers : PopStep(w) =>
            LET id == wk'[w].job.id
                el == Eligible(jobs, subjects, WorkerQueue(w))
            IN /\ id \in el
               /\ \A k \in el \ {id} : SortsBefore(jobs[id], jobs[k])]_vars

\* C10: update_state (dev.cancel.v1) on a job in a terminal state returns
\* InvalidState and changes nothing; on an absent id cancel returns NotFound
C10_UpdateStateRefusesTerminal ==
    /\ \A i \in DOMAIN jobs : IsTerminal(jobs[i].state) =>
          /\ CancelResult(jobs, i) = "InvalidState"
          /\ UpdateState(jobs, i, "CANCELLED", now) = jobs
    /\ \A i \in Ids \ DOMAIN jobs : CancelResult(jobs, i) = "NotFound"

\* C11: cancel is idempotent: on a job in a terminal state it returns success
\* and changes nothing; on a non-terminal job it moves the job to CANCELLED,
\* and a second cancel (at any later time) leaves state and finished_at as
\* the first left them
C11_CancelIdempotent ==
    \A i \in DOMAIN jobs :
        LET once == UpdateState(jobs, i, "CANCELLED", now)
        IN IF IsTerminal(jobs[i].state)
           THEN CancelResult(jobs, i) = "Ok" /\ once = jobs
           ELSE /\ CancelResult(jobs, i) = "Ok"
                /\ once[i].state = "CANCELLED"
                /\ \A t \in Times : t >= now =>
                      UpdateState(once, i, "CANCELLED", t) = once

\* the step in which the enqueue call of client c fails after its
\* transaction has begun
EnqFailStep(c) ==
    /\ enq[c].pc \in {"newsubj", "insert", "mark", "commit"}
    /\ enq'[c].pc \in {"failed", "ioerror"}

\* C12: an enqueue that fails after its transaction has begun leaves the
\* store as it was: the failing step changes neither the jobs nor the
\* subjects table, the writes the transaction had made (inserted row,
\* SUPERSEDED marks, created or advanced subject counter) are discarded with
\* its write lock, and the caller gets DB_ERROR
C12_FailedEnqueueLeavesNoTrace ==
    [][\A c \in Clients : EnqFailStep(c) =>
          /\ jobs' = jobs /\ subjects' = subjects
          /\ wlock' # c
          /\ wlock = c => (wlock' = NoOne /\ wjobs' = jobs /\ wsubjects' = subjects)
          /\ wlock # c => (wjobs' = wjobs /\ wsubjects' = wsubjects)]_vars

\* C12 witness: an enqueue has failed after it had inserted its row: the id
\* was handed out, no transaction is open, and no row carries the id
C12_FailedAfterInsert ==
    /\ \E c \in Clients : enq[c].pc = "ioerror"
    /\ wlock = NoOne
    /\ wjobs = jobs /\ wsubjects = subjects
    /\ usedIds \ DOMAIN jobs # {}

\* C13: every RUNNING job has started_at set, and every job in a terminal
\* state has finished_at set
C13_TimestampsPresent ==
    \A i \in DOMAIN jobs :
        /\ jobs[i].state = "RUNNING" => jobs[i].started_at # None
        /\ IsTerminal(jobs[i].state) => jobs[i].finished_at # None

\* C13 witness: a RUNNING job next to a job that ended without ever running
\* (SUPERSEDED or CANCELLED while QUEUED)
C13_RunningNextToNeverStarted ==
    \E i, k \in DOMAIN jobs :
        /\ jobs[i].state = "RUNNING" /\ jobs[i].started_at # None
        /\ IsTerminal(jobs[k].state) /\ jobs[k].started_at = None
        /\ jobs[k].finished_at # None

C15_PanicRecordedFailed ==
    [][\A w \in Workers :
          (FinishStep(w)
              /\ jobs' = RepoUpdate(jobs, OutcomeJob(wk[w].job, "panic", now))) =>
                LET id == wk[w].job.id
                IN /\ jobs'[id].state = "FAILED"
                   /\ jobs'[id].finished_at = now
                   /\ jobs'[id].attempts = jobs[id].attempts
                   /\ wk'[w] = [pc |-> "idle", job |-> NoJob]]_vars

\* C15 witness: a job that ran and is FAILED with retries left (so by panic,
\* not by exhaustion), while a worker runs another job popped afterwards
C15_WorkerRunsOnAfterPanic ==
    \E i \in DOMAIN jobs, w \in Workers :
        /\ jobs[i].state = "FAILED"
        /\ jobs[i].started_at # None
        /\ jobs[i].attempts < jobs[i].max_attempts
        /\ wk[w].pc = "exec" /\ wk[w].job.id # i
        /\ wk[w].job.started_at >= jobs[i].finished_at

C17_FailedRecoveryAbortsStartup ==
    [][startup = "recovery_failed" =>
          \/ RestartRecoveryFails
          \/ \E window \in Durations : Restart(window)]_vars

\* C18: when a graceful failure at time t is answered with Retry(delay), the
\* job is stored QUEUED with schedule_at = t + delay, and a retried job
\* passes the gate to the executor only once its schedule_at has come
C18_RetryCarriesScheduleAt ==
    [][\A w \in Workers :
          /\ (FinishStep(w) /\ failures' # failures
                /\ ShouldRetry(wk[w].job) = "Retry") =>
                jobs'[wk[w].job.id].schedule_at = now + RetryDelay(wk[w].job)
          /\ (wk[w].pc = "gate" /\ wk'[w].pc = "exec"
                /\ wk[w].job.attempts > 0) =>
                (wk[w].job.schedule_at # None /\ now >= wk[w].job.schedule_at)]_vars

\* C19: a job whose deadline had passed or whose TTL was exceeded when it was
\* popped is failed by the worker at once: its body is not executed, it is not
\* requeued, and its attempts are not incremented
C19_ExpiredJobNotExecuted ==
    [][\A w \in Workers :
          (wk[w].pc = "gate"
              /\ \/ IsDeadlineExceeded(wk[w].job, wk[w].job.started_at)
                 \/ IsTtlExceeded(wk[w].job, wk[w].job.started_at)) =>
                /\ wk'[w].pc # "exec"
                /\ wk'[w].pc = "idle" /\ wk[w].job.id \in DOMAIN jobs' =>
                      /\ jobs'[wk[w].job.id].state # "QUEUED"
                      /\ jobs'[wk[w].job.id].attempts = wk[w].job.attempts]_vars

\* worker w is in one of the loop's sleeps
Sleeping(w) == wk[w].pc \in SleepKinds

\* C20, the steps: a worker leaves the loop only from the loop top or from a
\* sleep, never while it holds a job (the outcome of a job in process is
\* stored first), and a worker that has left pops nothing and stays out
C20_ShutdownSteps ==
    \A w \in Workers :
        /\ (wk[w].pc # "stopped" /\ wk'[w].pc = "stopped") =>
              /\ wk[w].pc \in {"idle"} \cup SleepKinds
              /\ IsShutdown
              /\ wk[w].job = NoJob
              /\ jobs' = jobs
        /\ wk[w].pc = "stopped" => wk'[w] = wk[w]

\* C20, the sleeps: once the signal is sent, the wait of a sleeping worker
\* returns, also when the signal was sent before the sleep began
C20_SleepCutShort ==
    \A w \in Workers : (Sleeping(w) /\ IsShutdown) => WaitReturns(w)

C21_GcDeletesExactlyExpired ==
    [][\A retention \in Durations : Maintenance(retention) =>
          LET expired == {i \in DOMAIN jobs :
                             /\ jobs[i].state \in {"DONE", "FAILED", "SUPERSEDED"}
                             /\ jobs[i].finished_at # None
                             /\ jobs[i].finished_at < now - retention}
          IN /\ DOMAIN jobs' = DOMAIN jobs \ expired
             /\ \A i \in DOMAIN jobs' : jobs'[i] = jobs[i]
             /\ subjects' = subjects
             /\ GcDeletedCount(jobs, now, retention) = Cardinality(expired)]_vars

\* C21 witness: the first job of a subject is gone from the store while the
\* second, which finished at the cutoff, is still there
C21_ExpiredGoneRecentKept ==
    /\ now = 1
    /\ \E s \in DOMAIN subjects :
          /\ subjects[s] = 2
          /\ \A i \in DOMAIN jobs : jobs[i].subject_key = s => jobs[i].generation = 2
          /\ \E i \in DOMAIN jobs :
                /\ jobs[i].subject_key = s
                /\ jobs[i].state \in {"DONE", "FAILED", "SUPERSEDED"}
                /\ jobs[i].finished_at = 1

\* worker w comes out of the scheduler gate
GateStep(w) == wk[w].pc = "gate" /\ wk'[w].pc # "gate"

\* the host draws AC power: an adapter is online, or there is no battery to
\* draw from
OnAcPower(p) == p.mains \/ p.battery = None

\* the four rules of the gate, for the job worker w holds: future schedule_at,
\* busy CPU, neither AC power nor a battery at 80% (where the build can read
\* the power source at all), an event to wait for
GateRule(w, n) ==
    LET j == wk[w].job
    IN CASE n = 1 -> j.schedule_at # None /\ now < j.schedule_at
         [] n = 2 -> j.wait_for_idle /\ probe.cpu >= 30
         [] n = 3 -> /\ j.require_charging
                     /\ probe.platform \in {"macos", "linux"}
                     /\ ~(OnAcPower(probe)
                          \/ (probe.battery # None /\ probe.battery >= 80))
         [] n = 4 -> j.wait_for_event

\* C22: the gate turns a job away exactly when one of the four rules holds,
\* and the rule it reports is the first one in order that holds; a job whose
\* schedule_at is now passes rule 1, and a CPU at exactly 30% is not idle
C22_NotReadyIffRuleHolds ==
    [][\A w \in Workers : GateStep(w) =>
          /\ wk'[w].pc # "exec" <=> \E n \in 1..4 : GateRule(w, n)
          /\ \A n \in 1..4 :
                NotReadyRule(wk[w].job, now, probe) = n =>
                    GateRule(w, n) /\ \A m \in 1..(n - 1) : ~GateRule(w, m)
          /\ (wk[w].job.schedule_at = now /\ wk[w].job.wait_for_idle
              /\ probe.cpu = 30) => NotReadyRule(wk[w].job, now, probe) = 2]_vars

\* worker w stores the outcome of a graceful failure
GracefulFailureStep(w) ==
    /\ wk[w].pc = "exec"
    /\ wk'[w].pc = "idle"
    /\ failures'[wk[w].job.id] = failures[wk[w].job.id] + 1

\* C23, the decision: on a graceful failure the job is stored FAILED exactly
\* when its attempts have reached max_attempts, and QUEUED for a retry, with
\* one more attempt counted, otherwise
C23_FailedIffAttemptsReachMax ==
    \A w \in Workers : GracefulFailureStep(w) =>
        LET j == wk[w].job
        IN /\ ShouldRetry(j) = "Failed" <=> j.attempts >= j.max_attempts
           /\ jobs'[j.id].state =
                 IF j.attempts >= j.max_attempts THEN "FAILED" ELSE "QUEUED"
           /\ jobs'[j.id].attempts =
                 IF j.attempts >= j.max_attempts THEN j.attempts
                 ELSE j.attempts + 1

\* C23, max_attempts = 0: after its first graceful failure the job is FAILED,
\* was never requeued (no attempt counted, no second failure), and stays so
C23_ZeroBudgetFailsAtOnce ==
    \A i \in DOMAIN jobs :
        (jobs[i].max_attempts = 0 /\ failures[i] >= 1) =>
            /\ jobs[i].state = "FAILED"
            /\ jobs[i].attempts = 0
            /\ failures[i] = 1
            /\ \A w \in Workers : wk[w].job.id # i

\* C23: should_retry answers Failed exactly when attempts >= max_attempts and
\* Retry otherwise; a job with max_attempts = 0 is FAILED on its first
\* graceful failure and never requeued
C23_RetryDecision ==
    /\ [][C23_FailedIffAttemptsReachMax]_vars
    /\ []C23_ZeroBudgetFailsAtOnce

\* C23 witness: a job with max_attempts = 0 is FAILED after one graceful
\* failure while a job with max_attempts = 2 has been requeued after one
C23_ZeroBudgetFailedNextToRetried ==
    \E i, k \in DOMAIN jobs :
        /\ jobs[i].max_attempts = 0 /\ failures[i] = 1
        /\ jobs[i].state = "FAILED" /\ jobs[i].finished_at # None
        /\ jobs[k].max_attempts = 2 /\ failures[k] = 1
        /\ jobs[k].state = "QUEUED" /\ jobs[k].attempts = 1

\* the largest number in a non-empty sequence of generations
LargestOf(gens) ==
    CHOOSE g \in {gens[n] : n \in DOMAIN gens} :
        \A n \in DOMAIN gens : gens[n] <= g

\* C24, the counter: a subject has a counter exactly when an enqueue for it
\* has committed; the counter equals the largest generation a committed
\* enqueue gave a job of the subject, whether or not that job's row is still
\* in the store, and no row carries a larger generation
C24_CounterIsLargestIssued ==
    \A s \in Subjects :
        /\ s \in DOMAIN subjects <=> genLog[s] # <<>>
        /\ s \in DOMAIN subjects => subjects[s] = LargestOf(genLog[s])
        /\ \A i \in DOMAIN jobs :
              jobs[i].subject_key = s =>
                  s \in DOMAIN subjects /\ jobs[i].generation <= subjects[s]

\* C24, the steps: no step removes a subject's counter or lowers it
C24_CounterNeverDecreases ==
    \A s \in DOMAIN subjects :
        s \in DOMAIN subjects' /\ subjects'[s] >= subjects[s]

\* C24: under every interleaving of enqueue, pop_next, worker processing,
\* cancel, recovery and maintenance GC, a subject's latest_generation never
\* decreases and equals the largest generation ever given to a job of the
\* subject, also after GC has deleted the rows of that generation
C24_LatestGenerationMonotone ==
    /\ []C24_CounterIsLargestIssued
    /\ [][C24_CounterNeverDecreases]_vars

\* C24 witness: a subject's counter stands at 2 after GC has deleted every
\* row of the subject
C24_CounterOutlivesRows ==
    \E s \in DOMAIN subjects :
        /\ subjects[s] = 2
        /\ genLog[s] = <<1, 2>>
        /\ \A i \in DOMAIN jobs : jobs[i].subject_key # s

\* C25: the environment of every spawned child holds only variables whose
\* names are in the executor's allowlist, whether the payload's env map asked
\* for them or the daemon's own environment has them
C25_ChildEnvWithinAllowlist ==
    \A n \in DOMAIN children : DOMAIN children[n].env \subseteq EnvAllowlist

\* worker w's execution ends and its outcome is stored
ExecuteStep(w) == wk[w].pc = "exec" /\ wk'[w].pc = "idle"

\* C26: when the job's deadline is already in the past as execution starts,
\* execute returns Timeout at once: no child process is spawned and the
\* worker stores a graceful failure
C26_PastDeadlineTimesOutUnspawned ==
    [][\A w \in Workers :
          (/\ ExecuteStep(w)
           /\ wk[w].job.deadline # None
           /\ wk[w].job.deadline < now) =>
              /\ children' = children
              /\ failures'[wk[w].job.id] = failures[wk[w].job.id] + 1]_vars

\* the ASCII letters and digits
AsciiLettersAndDigits == AsciiAlphanumeric

\* the nesting depth of a JSON value: how many arrays and objects enclose
\* its most deeply nested value
RECURSIVE NestingDepth(_)
NestingDepth(value) ==
    IF value.kind = "scalar" THEN 0
    ELSE LET below == {NestingDepth(value.items[n]) : n \in DOMAIN value.items}
         IN IF below = {} THEN 0
            ELSE 1 + CHOOSE d \in below : \A e \in below : e <= d

\* the request breaks a rule of the enqueue contract
BreaksRule(req) ==
    \/ Len(Chars(req.queue)) = 0
    \/ Len(Chars(req.queue)) > 64
    \/ \E n \in DOMAIN Chars(req.queue) :
          Chars(req.queue)[n] \notin AsciiLettersAndDigits \cup {"_", "-"}
    \/ Len(Chars(req.job_type)) = 0
    \/ Len(Chars(req.job_type)) > 128
    \/ Len(Chars(req.subject_key)) = 0
    \/ Len(Chars(req.subject_key)) > 512
    \/ \E n \in DOMAIN Chars(req.subject_key) :
          Chars(req.subject_key)[n] = "<NUL>"
    \/ NestingDepth(req.payload) > 32
    \/ req.priority < -100
    \/ req.priority > 100

\* C27: enqueue answers VALIDATION_ERROR and writes nothing whenever the
\* request breaks a rule (queue empty, longer than 64 or with a character
\* outside [A-Za-z0-9_-]; job_type empty or longer than 128; subject_key
\* empty, longer than 512 or with a NUL; payload nested deeper than 32;
\* priority outside [-100, 100]), and accepts a request that breaks none,
\* the ones at the limits included
C27_RejectedIffRuleBroken ==
    [][\A req \in BoundaryRequests : EnqBegin(Caller, req) =>
          /\ BreaksRule(req) <=> enq'[Caller].pc = "rejected"
          /\ enq'[Caller].pc = "rejected" =>
                /\ jobs' = jobs /\ subjects' = subjects
                /\ wjobs' = wjobs /\ wsubjects' = wsubjects
                /\ wlock' = wlock /\ usedIds' = usedIds]_vars

\* C28: a worker leaves its loop only once shutdown has been signalled; the
\* end of an execution, whatever its outcome, leaves the worker in the loop,
\* and after a store error the worker sleeps and then goes on with the next
\* iteration
C28_OnlyShutdownEndsLoop ==
    [][\A w \in Workers :
          /\ (wk[w].pc # "stopped" /\ wk'[w].pc = "stopped") => watch.value
          /\ wk[w].pc \in {"gate", "exec"} =>
                wk'[w].pc \in {wk[w].pc, "exec", "idle", "errsleep"}
          /\ (wk[w].pc = "errsleep" /\ ~watch.value) =>
                wk'[w].pc \in {"errsleep", "idle"}]_vars

\* C28 witness: with no shutdown signalled, one job has FAILED by a panic,
\* the update of another has failed with a store error (its row is still
\* RUNNING and no worker holds it), and a worker is back in its sleep
C28_WorkerSleepsAfterErrors ==
    /\ ~watch.value
    /\ \E i, k \in DOMAIN jobs :
          /\ jobs[i].state = "FAILED" /\ failures[i] = 0
          /\ jobs[k].state = "RUNNING"
          /\ \A w \in Workers : wk[w].job.id # k
    /\ \E w \in Workers : wk[w].pc = "errsleep"
    /\ \A w \in Workers : wk[w].pc # "stopped"

\* the job worker w holds, as the gate branch hands it to update
Requeued(w) == [wk[w].job EXCEPT !.state = "QUEUED", !.started_at = None]

\* worker w's gate finds its job not ready and stores it back
RejectStep(w) ==
    /\ wk[w].pc = "gate"
    /\ ~IsReady(wk[w].job, now, probe)
    /\ wk'[w].pc = "idle"
    /\ jobs' = RepoUpdate(jobs, Requeued(w))

\* C29: a popped job that the gate finds not ready is not executed and is
\* stored back as QUEUED with started_at cleared; every other column
\* (attempts, priority, generation, created_at, finished_at, the scheduling
\* hints) is as it was, so the row after the rejection is the row as it was
\* before the pop: the pop took a QUEUED row with no started_at and changed
\* state and started_at only, and the rejection stores that row with the two
\* columns reset
C29_RejectionRestoresRow ==
    [][\A w \in Workers :
          /\ PopStep(w) =>
                LET id == wk'[w].job.id
                IN /\ jobs[id].state = "QUEUED"
                   /\ jobs[id].started_at = None
                   /\ wk'[w].job = [jobs[id] EXCEPT !.state = "RUNNING",
                                                    !.started_at = now]
          /\ RejectStep(w) =>
                LET id == wk[w].job.id
                IN /\ jobs'[id] = Requeued(w)
                   /\ \A i \in DOMAIN jobs \ {id} : jobs'[i] = jobs[i]
                   /\ children' = children
                   /\ failures' = failures
                   /\ wk'[w] = [pc |-> "idle", job |-> NoJob]]_vars

\* C29 witness: a worker at the gate holds a job popped at time 1 that
\* waits for an idle host and for charging, and the gate is about to turn it
\* down; the stored row is RUNNING with started_at = 1
C29_PoppedJobTurnedDown ==
    \E w \in Workers :
        /\ wk[w].pc = "gate"
        /\ ~IsReady(wk[w].job, now, probe)
        /\ wk[w].job.wait_for_idle /\ wk[w].job.require_charging
        /\ wk[w].job.started_at = 1
        /\ jobs[wk[w].job.id].state = "RUNNING"
        /\ jobs[wk[w].job.id].started_at = 1

\* C30: pop_next changes exactly one row, the job it returns: that row goes
\* from QUEUED to RUNNING with started_at = now and keeps every other
\* column; no row appears or disappears, every other row (a QUEUED row of an
\* older generation of the same subject among them) and every subject counter
\* stay as they were; and a pop_next that finds no job changes nothing
C30_PopChangesOneRow ==
    [][/\ \A w \in Workers : PopStep(w) =>
            LET id == wk'[w].job.id
            IN /\ id \in DOMAIN jobs
               /\ jobs[id].state = "QUEUED"
               /\ jobs'[id] = [jobs[id] EXCEPT !.state = "RUNNING",
                                                !.started_at = now]
               /\ wk'[w].job = jobs'[id]
               /\ DOMAIN jobs' = DOMAIN jobs
               /\ \A i \in DOMAIN jobs \ {id} : jobs'[i] = jobs[i]
               /\ subjects' = subjects
       /\ \A q \in Queues :
            PopNextId(jobs, q) = 0 => PopNext(jobs, q, now) = jobs]_vars

\* C30 witness: a worker has just popped the generation-2 job of a subject
\* (RUNNING, started now) while a generation-1 job of the same subject is
\* still QUEUED and untouched
C30_PoppedBesideOlderQueued ==
    \E w \in Workers, i \in DOMAIN jobs :
        /\ wk[w].pc = "gate"
        /\ wk[w].job.generation = 2
        /\ jobs[wk[w].job.id] = wk[w].job
        /\ wk[w].job.state = "RUNNING"
        /\ wk[w].job.started_at = now
        /\ jobs[i].subject_key = wk[w].job.subject_key
        /\ jobs[i].generation = 1
        /\ jobs[i].state = "QUEUED"
        /\ jobs[i].started_at = None

\* a QUEUED row whose generation is below its subject's latest_generation
ObsoleteQueued(i) ==
    /\ i \in DOMAIN jobs
    /\ jobs[i].state = "QUEUED"
    /\ jobs[i].generation < subjects[jobs[i].subject_key]

\* C31: an obsolete QUEUED row does not stay QUEUED for ever: with the
\* workers and maintenance running and no further enqueue owed, it is
\* eventually SUPERSEDED, otherwise out of QUEUED, or removed
C31_ObsoleteRowCleanedUp ==
    \A i \in Ids :
        ObsoleteQueued(i) ~> (i \notin DOMAIN jobs \/ jobs[i].state # "QUEUED")

\* the step in which caller c's transaction runs mark_superseded
MarkStep(c) == enq[c].pc = "mark" /\ enq'[c].pc = "commit"

\* the step in which caller c's enqueue commits
CallerCommits(c) ==
    enq[c].pc = "commit" /\ enq'[c].pc = "idle" /\ jobs' = wjobs

\* the rows of subject_key in js that are QUEUED below generation g
QueuedBelow(js, subject_key, g) ==
    {i \in DOMAIN js : /\ js[i].subject_key = subject_key
                       /\ js[i].state = "QUEUED"
                       /\ js[i].generation < g}

\* C32: mark_superseded(subject, g) changes exactly the rows of the subject
\* that are QUEUED with generation < g, to SUPERSEDED with finished_at = now,
\* and returns their number; every other row is unchanged. An enqueue that
\* commits therefore leaves every RUNNING or terminal row and every row of
\* another subject as it was, and takes no job away from a worker
C32_SupersedesExactlyQueuedBelow ==
    [][\A c \in Clients :
          /\ MarkStep(c) =>
                LET s == enq[c].req.subject_key
                    g == enq[c].new_gen
                    hit == QueuedBelow(wjobs, s, g)
                IN /\ DOMAIN wjobs' = DOMAIN wjobs
                   /\ \A i \in hit :
                        wjobs'[i] = [wjobs[i] EXCEPT !.state = "SUPERSEDED",
                                                     !.finished_at = now]
                   /\ \A i \in DOMAIN wjobs \ hit : wjobs'[i] = wjobs[i]
                   /\ MarkSupersededCount(wjobs, s, g) = Cardinality(hit)
          /\ CallerCommits(c) =>
                LET s == enq[c].req.subject_key
                    g == enq[c].new_gen
                IN /\ \A i \in DOMAIN jobs :
                        \/ jobs'[i] = jobs[i]
                        \/ /\ i \in QueuedBelow(jobs, s, g)
                           /\ jobs'[i].state = "SUPERSEDED"
                   /\ \A i \in DOMAIN jobs :
                        jobs[i].state = "RUNNING" => jobs'[i] = jobs[i]
                   /\ wk' = wk]_vars

\* C32 witness: the generation-2 job of a subject is committed and QUEUED
\* while the generation-1 job of the same subject is RUNNING in a worker's
\* hands, started before the newer job was created
C32_RunningBesideNewerGeneration ==
    \E w \in Workers, k \in DOMAIN jobs :
        /\ wk[w].pc = "exec"
        /\ jobs[wk[w].job.id].state = "RUNNING"
        /\ jobs[wk[w].job.id].generation = 1
        /\ jobs[k].subject_key = wk[w].job.subject_key
        /\ jobs[k].generation = 2
        /\ jobs[k].state = "QUEUED"
        /\ jobs[wk[w].job.id].started_at < jobs[k].created_at
        /\ subjects[jobs[k].subject_key] = 2

\* C33: update(job) fails with an error and changes nothing when no row with
\* job.id exists; an update that matched no row never answers Ok
C33_UpdateFailsOnAbsentRow ==
    /\ reply.call = "update" /\ reply.rows_affected = 0 => reply.result # "Ok"
    /\ \A job \in UpdateInputs :
          job.id \notin DOMAIN jobs => RepoUpdate(jobs, job) = jobs

\* C34: in every reachable state each subject has at most one QUEUED job: a
\* job of an older generation that retry, the gate or recovery puts back to
\* QUEUED never stands beside a QUEUED job of a newer generation
C34_AtMostOneQueuedPerSubject ==
    \A s \in Subjects : Cardinality(QueuedOf(jobs, s)) <= 1

\* worker w holds a job: pop_next has returned it and w has neither stored
\* its outcome nor requeued it
Holds(w) == wk[w].pc \in {"gate", "exec"}

\* C35: at no time do two workers hold the same job; while a worker holds a
\* job its row is never QUEUED (it is RUNNING, or CANCELLED by a caller), so
\* no pop_next can return it, whatever enqueue, cancel and maintenance do in
\* between
C35_OneHolderPerJob ==
    /\ \A w, v \in Workers :
          w # v /\ Holds(w) /\ Holds(v) => wk[w].job.id # wk[v].job.id
    /\ \A w \in Workers : Holds(w) =>
          /\ wk[w].job.id \in DOMAIN jobs
          /\ jobs[wk[w].job.id].state \in {"RUNNING", "CANCELLED"}
          /\ \A q \in Queues : PopNextId(jobs, q) # wk[w].job.id

\* C35 witness: worker w is executing a job it popped at time 0; a caller
\* has cancelled that job since; the other worker has popped another job of
\* the same queue at time 1
C35_SecondPopWhileFirstHeld ==
    \E w, v \in Workers :
        /\ w # v
        /\ wk[w].pc = "exec" /\ wk[w].job.started_at = 0
        /\ jobs[wk[w].job.id].state = "CANCELLED"
        /\ wk[v].pc = "gate" /\ wk[v].job.started_at = 1
        /\ wk[v].job.queue = wk[w].job.queue
        /\ jobs[wk[v].job.id].state = "RUNNING"

\* job i is QUEUED, of its subject's latest generation, and the gate would
\* admit it now
ReadyInQueue(i) ==
    /\ i \in DOMAIN jobs
    /\ jobs[i].state = "QUEUED"
    /\ jobs[i].generation = MaxGeneration(jobs, jobs[i].subject_key)
    /\ IsReady(jobs[i], now, probe)

\* a worker is running the body of job i
InExecution(i) == \E w \in Workers : wk[w].pc = "exec" /\ wk[w].job.id = i

\* C36: a QUEUED job that is eligible and passes the gate is eventually
\* executed by the running workers of its queue, even when a job that sorts
\* ahead of it in the same queue never passes the gate
C36_ReadyJobEventuallyExecuted ==
    \A i \in Ids : ReadyInQueue(i) ~> InExecution(i)

\* C37: once startup recovery has completed, every RUNNING job eventually
\* leaves RUNNING, a job that was inside the recovery window at the restart
\* and a job whose outcome could not be stored included
C37_RunningEventuallyLeaves ==
    \A i \in Ids :
        (Started /\ i \in DOMAIN jobs /\ jobs[i].state = "RUNNING")
            ~> (i \notin DOMAIN jobs \/ jobs[i].state # "RUNNING")

\* C38: over the whole life of a job its body is started at most
\* max_attempts + 1 times, gate requeues and recovery requeues after a crash
\* included
C38_StartsBoundedByBudget ==
    \A i \in DOMAIN jobs : starts[i] <= jobs[i].max_attempts + 1

\* C39: a maintenance pass, periodic or admin.maintenance.v1, never deletes
\* a job row whose log file is still on disk after the pass: the file is
\* removed by the same or an earlier pass
LogFileGoneWithRow ==
    \A i \in DOMAIN jobs \ DOMAIN jobs' :
        jobs[i].log_path # None => jobs[i].log_path \notin files'

C39_RowNeverOutlivedByLog == [][LogFileGoneWithRow]_vars

\* C40: the bucket refills at refill_rate tokens per second whatever the
\* rate of rejected requests: a check() made when the time for one token
\* (1000 / refill_rate ms) has passed since the last granted request is
\* allowed
MsPerToken == 1000 \div DEFAULT_RATE_PER_SEC

CheckStep == limiter'.elapsed_ms = limiter.elapsed_ms /\ reply'.call = "check"

AllowedAfterTokenTime ==
    (/\ CheckStep
     /\ limiter.granted_ms # -1
     /\ limiter.elapsed_ms - limiter.granted_ms >= MsPerToken)
        => reply'.result = "allowed"

C40_RefillIndependentOfRejections == [][AllowedAfterTokenTime]_vars

====
